---------------------------- MODULE Spec2Model ----------------------------
(***************************************************************************)
(* Model of SubComponentExtractor (src/unnamed/part_008, lines 236-900):   *)
(* the four-phase component extraction pass over a mutable UINode forest,  *)
(* with its structural hash, visual fingerprint, candidate collection,     *)
(* variant (multi-look) analysis, tree transformation, state detection and *)
(* resource finalisation.                                                  *)
(*                                                                         *)
(* Nodes live in a heap (a sequence of records, address = index) so that   *)
(* the aliasing of the source is kept: the candidate groups hold the very  *)
(* node objects that the tree holds, and a reference node is a new object. *)
(***************************************************************************)
EXTENDS Integers, Sequences, FiniteSets, TLC

VARIABLES
  heap,          \* the UINode objects; heap[a] is the object at address a
  roots,         \* rootNodes: the addresses of the root forest, in order
  groups,        \* _candidateGroups: sequence of [hash, insts], insertion order
  cache,         \* _componentCache: sequence of [hash, res], insertion order
  newResources,  \* _newResources
  nextCompId,    \* _nextCompId
  usedNames,     \* usedNames of phase 2: sequence of [name, count]
  pc,            \* position inside extract
  gi,            \* index of the group (or root) the current loop is at
  ii,            \* index of the instance inside the group (phase 3)
  hashOut,       \* results of calculateStructuralHash on the two input subtrees
  fpOut,         \* results of computeVisualFingerprint on the two input subtrees
  tasks,         \* downloadTasks: per task its label and the state of its call
  limit,         \* parallelLimit's limit
  idx,           \* parallelLimit's idx
  results,       \* parallelLimit's results
  run,           \* the run() calls of parallelLimit: [state, i] each
  plpc           \* position inside parallelLimit

\* the state of the extractor
extractor == <<heap, roots, groups, cache, newResources, nextCompId, usedNames,
               pc, gi, ii, hashOut, fpOut>>

\* the state of the download stage
download == <<tasks, limit, idx, results, run, plpc>>

vars == <<extractor, download>>

(***************************************************************************)
(* Bounds of the checked input sets.                                       *)
(***************************************************************************)
MaxDeltas == 2
MaxKids == 2
MaxInst == 3
MaxSlots == 3
MaxWide == 3

(***************************************************************************)
(* ObjectType (src/src/models/FGUIEnum.ts).                                *)
(***************************************************************************)
Image == 0
Graph == 3
Loader == 4
Group == 5
Text == 6
RichText == 7
InputText == 8
Component == 9
List == 10
Label == 11
Button == 12
ComboBox == 13
ProgressBar == 14
Slider == 15

(***************************************************************************)
(* Strings.  A node name is a string; Chars gives its characters, so that  *)
(* toLowerCase, includes and the whitespace replace are computed on the    *)
(* characters.  A CJK character is written as one token "uXXXX".           *)
(***************************************************************************)
Chars(s) ==
  CASE s = "Root" -> <<"R","o","o","t">>
    [] s = "Card" -> <<"C","a","r","d">>
    [] s = "Card_1" -> <<"C","a","r","d","_","1">>
    [] s = "Panel" -> <<"P","a","n","e","l">>
    [] s = "Rect" -> <<"R","e","c","t">>
    [] s = "Button/Default" -> <<"B","u","t","t","o","n","/","D","e","f","a","u","l","t">>
    [] s = "Button/Pressed" -> <<"B","u","t","t","o","n","/","P","r","e","s","s","e","d">>
    [] s = "Button/Hover" -> <<"B","u","t","t","o","n","/","H","o","v","e","r">>
    [] s = "Btn Main" -> <<"B","t","n"," ","M","a","i","n">>
    [] s = "BtnText" -> <<"B","t","n","T","e","x","t">>
    [] s = "Title" -> <<"T","i","t","l","e">>
    [] s = "Label" -> <<"L","a","b","e","l">>
    [] s = "Caption" -> <<"C","a","p","t","i","o","n">>
    [] s = "bg" -> <<"b","g">>
    [] s = "Icon" -> <<"I","c","o","n">>
    [] s = "hover" -> <<"h","o","v","e","r">>
    [] s = "Group 1" -> <<"G","r","o","u","p"," ","1">>
    [] s = "Selected" -> <<"S","e","l","e","c","t","e","d">>
    [] s = "title" -> <<"t","i","t","l","e">>
    [] s = "icon" -> <<"i","c","o","n">>
    [] s = "bar" -> <<"b","a","r">>
    [] s = "grip" -> <<"g","r","i","p">>
    [] OTHER -> <<>>

UpperToLower ==
  [c \in {"A", "B", "C", "D", "E", "F", "G", "H", "I", "J", "K", "L", "M", "N", "O", "P", "Q", "R", "S", "T", "U", "V", "W", "X", "Y", "Z"} |->
    CASE c = "A" -> "a"
      [] c = "B" -> "b"
      [] c = "C" -> "c"
      [] c = "D" -> "d"
      [] c = "E" -> "e"
      [] c = "F" -> "f"
      [] c = "G" -> "g"
      [] c = "H" -> "h"
      [] c = "I" -> "i"
      [] c = "J" -> "j"
      [] c = "K" -> "k"
      [] c = "L" -> "l"
      [] c = "M" -> "m"
      [] c = "N" -> "n"
      [] c = "O" -> "o"
      [] c = "P" -> "p"
      [] c = "Q" -> "q"
      [] c = "R" -> "r"
      [] c = "S" -> "s"
      [] c = "T" -> "t"
      [] c = "U" -> "u"
      [] c = "V" -> "v"
      [] c = "W" -> "w"
      [] c = "X" -> "x"
      [] c = "Y" -> "y"
      [] c = "Z" -> "z"
  ]
CollectStateKeywords ==
  <<<<"h","o","v","e","r">>, <<"p","r","e","s","s","e","d">>, <<"d","o","w","n">>, <<"s","e","l","e","c","t","e","d">>, <<"c","h","e","c","k","e","d">>, <<"d","i","s","a","b","l","e","d">>, <<"u60AC","u505C">>, <<"u6309","u4E0B">>, <<"u9009","u4E2D">>>>

KwSelected ==
  <<<<"s","e","l","e","c","t","e","d">>, <<"u9009","u4E2D">>, <<"c","h","e","c","k","e","d">>>>

KwOver ==
  <<<<"o","v","e","r">>, <<"h","o","v","e","r">>, <<"u60AC","u505C">>>>

KwDown ==
  <<<<"d","o","w","n">>, <<"p","r","e","s","s","e","d">>, <<"u6309","u4E0B">>, <<"c","l","i","c","k","e","d">>>>

KwDisabled ==
  <<<<"d","i","s","a","b","l","e","d">>, <<"u7981","u7528">>, <<"g","r","a","y","e","d">>>>

KwNormal ==
  <<<<"n","o","r","m","a","l">>, <<"u","p">>, <<"u666E","u901A">>, <<"u9ED8","u8BA4">>>>

KwTitle ==
  <<<<"l","a","b","e","l">>, <<"t","i","t","l","e">>, <<"u6587","u672C">>, <<"u6570","u503C">>>>

KwIcon ==
  <<<<"i","c","o","n">>, <<"i","m","a","g","e">>, <<"u56FE","u6807">>, <<"b","g">>, <<"b","a","c","k","g","r","o","u","n","d">>>>

KwBar ==
  <<<<"b","a","r">>, <<"p","r","o","g","r","e","s","s">>, <<"u8FDB","u5EA6">>>>

KwGrip ==
  <<<<"g","r","i","p">>, <<"t","h","u","m","b">>, <<"u6ED1","u5757">>>>

KwDeny ==
  <<<<"b","t","n","t","e","x","t">>>>

toLowerCase(cs) ==
  [i \in 1..Len(cs) |->
     IF cs[i] \in DOMAIN UpperToLower THEN UpperToLower[cs[i]] ELSE cs[i]]

includes(cs, k) ==
  \E i \in 1..(Len(cs) - Len(k) + 1) : SubSeq(cs, i, i + Len(k) - 1) = k

\* keywords.some(k => nameLow.includes(k))
someIncluded(nameLow, keywords) ==
  \E j \in 1..Len(keywords) : includes(nameLow, keywords[j])

nameLow(name) == toLowerCase(Chars(name))

RECURSIVE Join(_, _)
Join(parts, sep) ==
  IF Len(parts) = 0 THEN ""
  ELSE IF Len(parts) = 1 THEN parts[1]
  ELSE parts[1] \o sep \o Join(Tail(parts), sep)

RECURSIVE Concat(_)
Concat(seqs) ==
  IF Len(seqs) = 0 THEN <<>> ELSE Head(seqs) \o Concat(Tail(seqs))

\* JSON.stringify of a string value
JsonString(v) == "\"" \o v \o "\""

(***************************************************************************)
(* UINode (src/src/models/UINode.ts).  An absent optional field is "" for  *)
(* a string, <<>> for a list or map, -1 for _variantPageId, FALSE for a    *)
(* flag; visible is FALSE only when the source field is false.             *)
(***************************************************************************)
NoStyles ==
  [borderRadius |-> "", border |-> "", strokeSize |-> "", shadow |-> "",
   fillType |-> "", fillColor |-> "", strokeColor |-> "", background |-> "",
   backgroundColor |-> "", outline |-> ""]

NoOverrides == [title |-> "", icon |-> "", page |-> 0]

BlankNode ==
  [id |-> 0, sourceId |-> "", name |-> "Rect", type |-> Image,
   x |-> 0, y |-> 0, width |-> 10, height |-> 10,
   styles |-> NoStyles, isMask |-> FALSE, cyclic |-> FALSE,
   text |-> "", src |-> "", fileName |-> "",
   children |-> <<>>, visible |-> TRUE,
   multiLooks |-> {}, asComponent |-> FALSE, structuralHash |-> <<>>,
   variantPageId |-> -1, overrides |-> NoOverrides,
   extention |-> "", controllers |-> <<>>, gears |-> <<>>]

(***************************************************************************)
(* calculateStructuralHash.  The string JSON.stringify(parts) is kept as   *)
(* its sequence of tokens: "[", the numbers in decimal, the style keys and *)
(* the stringified style values, the tokens of each child's hash, "]".     *)
(***************************************************************************)
importantStyles == <<"borderRadius", "border", "strokeSize", "shadow", "fillType">>

StyleValue(styles, k) ==
  CASE k = "borderRadius" -> styles.borderRadius
    [] k = "border" -> styles.border
    [] k = "strokeSize" -> styles.strokeSize
    [] k = "shadow" -> styles.shadow
    [] k = "fillType" -> styles.fillType
    [] k = "fillColor" -> styles.fillColor
    [] k = "strokeColor" -> styles.strokeColor
    [] k = "background" -> styles.background
    [] k = "backgroundColor" -> styles.backgroundColor
    [] k = "outline" -> styles.outline

HashKeysWithColour == importantStyles \o <<"fillColor">>

HashKeys == importantStyles

StyleParts(styles) ==
  Concat([j \in 1..Len(HashKeys) |->
            IF StyleValue(styles, HashKeys[j]) # ""
            THEN <<HashKeys[j], JsonString(StyleValue(styles, HashKeys[j]))>>
            ELSE <<>>])

RECURSIVE calculateStructuralHash(_, _)
calculateStructuralHash(h, a) ==
  LET node == h[a] IN
  <<"[", ToString(node.type), ToString(node.width), ToString(node.height)>>
    \o StyleParts(node.styles)
    \o Concat([j \in 1..Len(node.children) |->
                 calculateStructuralHash(h, node.children[j])])
    \o <<"]">>

(***************************************************************************)
(* computeVisualFingerprint: the colours of the descendants of the node    *)
(* (the node's own colours are not read), in pre-order, joined by "|".     *)
(***************************************************************************)
RECURSIVE collectColors(_, _)
collectColors(h, a) ==
  LET curr == h[a] IN
  (IF curr.styles.fillColor # "" /\ curr.styles.fillColor # "transparent"
   THEN <<curr.name \o ":fill:" \o curr.styles.fillColor>> ELSE <<>>)
  \o (IF curr.styles.strokeColor # ""
      THEN <<curr.name \o ":stroke:" \o curr.styles.strokeColor>> ELSE <<>>)
  \o Concat([j \in 1..Len(curr.children) |-> collectColors(h, curr.children[j])])

FingerprintRoots(h, a) == h[a].children

computeVisualFingerprint(h, a) ==
  Join(Concat([j \in 1..Len(FingerprintRoots(h, a)) |->
                 collectColors(h, FingerprintRoots(h, a)[j])]), "|")

(***************************************************************************)
(* Inputs of the two pure functions: a base subtree and a second,          *)
(* independently built subtree that deviates from it in up to MaxDeltas    *)
(* attributes (content, colour, geometry, shape style or type).            *)
(***************************************************************************)
Styled(node, k, v) ==
  [node EXCEPT !.styles =
     CASE k = "borderRadius" -> [@ EXCEPT !.borderRadius = v]
       [] k = "fillType" -> [@ EXCEPT !.fillType = v]
       [] k = "fillColor" -> [@ EXCEPT !.fillColor = v]
       [] k = "strokeColor" -> [@ EXCEPT !.strokeColor = v]
       [] k = "background" -> [@ EXCEPT !.background = v]
       [] k = "border" -> [@ EXCEPT !.border = v]]

Mk(type, name, w, hgt, kids) ==
  [BlankNode EXCEPT !.type = type, !.name = name, !.width = w,
                    !.height = hgt, !.children = kids]

PureBg == Styled(Styled(Mk(Image, "bg", 100, 40, <<>>), "fillColor", "#00f"),
                 "strokeColor", "#000")

PureTitle == [Mk(Text, "Title", 50, 20, <<>>) EXCEPT !.text = "OK"]

PureIcon == [Styled(Mk(Image, "Icon", 10, 10, <<>>), "fillColor", "#0f0")
               EXCEPT !.src = "ui://img1"]

PureRoot(kids) ==
  Styled(Styled(Mk(Button, "Button/Default", 100, 40, kids),
                "borderRadius", "4"), "fillColor", "#fff")

\* the base subtrees, children given as offsets from the root's address
BaseShapes ==
  << <<PureRoot(<<1>>), PureBg>>,
     <<PureRoot(<<1, 2>>), PureBg, PureTitle>>,
     <<PureRoot(<<1>>), [PureBg EXCEPT !.type = Component, !.children = <<2>>],
       PureIcon>> >>

DeltaKinds ==
  {"name", "x", "text", "src", "fillRed", "fillTransparent", "fillNone",
   "stroke", "width", "radius", "type", "hidden"}

ApplyDelta(node, kind) ==
  CASE kind = "name" -> [node EXCEPT !.name = "Panel"]
    [] kind = "x" -> [node EXCEPT !.x = 7, !.y = 9]
    [] kind = "text" -> [node EXCEPT !.text = "Cancel"]
    [] kind = "src" -> [node EXCEPT !.src = "ui://img2"]
    [] kind = "fillRed" -> Styled(node, "fillColor", "#f00")
    [] kind = "fillTransparent" -> Styled(node, "fillColor", "transparent")
    [] kind = "fillNone" -> Styled(node, "fillColor", "")
    [] kind = "stroke" -> Styled(node, "strokeColor", "#f0f")
    [] kind = "width" -> [node EXCEPT !.width = 60]
    [] kind = "radius" -> Styled(node, "borderRadius", "8")
    [] kind = "type" -> [node EXCEPT !.type = Group]
    [] kind = "hidden" -> [node EXCEPT !.visible = FALSE]

\* the nodes of a base shape placed at addresses off+1 .. off+n
Place(shape, off) ==
  [j \in 1..Len(shape) |->
     [shape[j] EXCEPT !.id = off + j,
                      !.children = [c \in 1..Len(@) |-> off + 1 + @[c]]]]

\* deltas: a function slot -> [node, kind] or the empty slot
DeltaChoices(n) ==
  {[node |-> 0, kind |-> "none"]} \cup
  {[node |-> j, kind |-> k] : j \in 1..n, k \in DeltaKinds}

RECURSIVE ApplyDeltas(_, _, _)
ApplyDeltas(nodes, ds, j) ==
  IF j > Len(ds) THEN nodes
  ELSE IF ds[j].node = 0 THEN ApplyDeltas(nodes, ds, j + 1)
  ELSE ApplyDeltas([nodes EXCEPT ![ds[j].node] = ApplyDelta(@, ds[j].kind)],
                   ds, j + 1)

InitIdle ==
  /\ groups = <<>>
  /\ cache = <<>>
  /\ newResources = <<>>
  /\ nextCompId = 0
  /\ usedNames = <<>>
  /\ gi = 1
  /\ ii = 1
  /\ hashOut = <<>>
  /\ fpOut = <<>>
  /\ tasks = <<>>
  /\ limit = 1
  /\ idx = 0
  /\ results = <<>>
  /\ run = <<>>
  /\ plpc = "idle"

InitPure ==
  /\ \E s \in 1..Len(BaseShapes) :
       \E ds \in [1..MaxDeltas -> DeltaChoices(Len(BaseShapes[s]))] :
         LET n == Len(BaseShapes[s]) IN
         /\ heap = Place(BaseShapes[s], 0)
                     \o ApplyDeltas(Place(BaseShapes[s], n), ds, 1)
         /\ roots = <<1, n + 1>>
  /\ pc = "pure"
  /\ InitIdle

ApplyHash ==
  /\ pc = "pure"
  /\ hashOut' = <<calculateStructuralHash(heap, roots[1]),
                  calculateStructuralHash(heap, roots[2])>>
  /\ pc' = "hashed"
  /\ UNCHANGED <<heap, roots, groups, cache, newResources, nextCompId,
                 usedNames, gi, ii, fpOut>>
  /\ UNCHANGED download

ApplyFingerprint ==
  /\ pc = "hashed"
  /\ fpOut' = <<computeVisualFingerprint(heap, roots[1]),
                computeVisualFingerprint(heap, roots[2])>>
  /\ pc' = "printed"
  /\ UNCHANGED <<heap, roots, groups, cache, newResources, nextCompId,
                 usedNames, gi, ii, hashOut>>
  /\ UNCHANGED download

\* a second call of calculateStructuralHash on the unchanged nodes
ApplyHashAgain ==
  /\ pc = "printed"
  /\ hashOut' = hashOut \o <<calculateStructuralHash(heap, roots[1]),
                             calculateStructuralHash(heap, roots[2])>>
  /\ pc' = "rehashed"
  /\ UNCHANGED <<heap, roots, groups, cache, newResources, nextCompId,
                 usedNames, gi, ii, fpOut>>
  /\ UNCHANGED download

NextPure == ApplyHash \/ ApplyFingerprint \/ ApplyHashAgain

SpecPure == InitPure /\ [][NextPure]_vars

(***************************************************************************)
(* Phase 1: collectCandidatesRecursive and its helpers.  The traversal     *)
(* threads the pair st = [heap, groups] through the recursion the way the  *)
(* source mutates the nodes and this._candidateGroups.                     *)
(***************************************************************************)
isExtensionType(type) ==
  type \in {Button, Label, ProgressBar, Slider, ComboBox, List}

RECURSIVE hasMaskDescendants(_, _)
hasMaskDescendants(h, a) ==
  \E j \in 1..Len(h[a].children) :
    \/ h[h[a].children[j]].isMask
    \/ hasMaskDescendants(h, h[a].children[j])

RECURSIVE allDescendantsAreShapes(_, _)
allDescendantsAreShapes(h, a) ==
  \A j \in 1..Len(h[a].children) :
    LET child == h[h[a].children[j]] IN
    /\ child.type \notin {Text, RichText, InputText}
    /\ ~isExtensionType(child.type)
    /\ (child.type \in {Image, Graph}
          \/ allDescendantsAreShapes(h, h[a].children[j]))

\* the pure-shape exclusion as an extension type would escape it
ShapeGroupSkippedUnlessExtension(h, a) ==
  ~isExtensionType(h[a].type) /\ allDescendantsAreShapes(h, a)

\* if (this.allDescendantsAreShapes(node)) return;
ShapeGroupSkipped(h, a) == allDescendantsAreShapes(h, a)

\* if (!isExtensionType && this.hasMaskDescendants(node)) return;
MaskSkipped(h, a) ==
  ~isExtensionType(h[a].type) /\ hasMaskDescendants(h, a)

hasNestedExtracted(h, a) ==
  \E j \in 1..Len(h[a].children) : h[h[a].children[j]].asComponent

hasVisuals(node) ==
  \/ node.styles.background # ""
  \/ node.styles.backgroundColor # ""
  \/ node.styles.border # ""
  \/ node.styles.outline # ""

\* two children taken for many
isSignificantFromTwo(h, a) ==
  \/ Len(h[a].children) > 1
  \/ isExtensionType(h[a].type)
  \/ hasNestedExtracted(h, a)
  \/ (hasVisuals(h[a]) /\ Len(h[a].children) > 0)

isSignificant(h, a) ==
  \/ Len(h[a].children) > 2
  \/ isExtensionType(h[a].type)
  \/ hasNestedExtracted(h, a)
  \/ (hasVisuals(h[a]) /\ Len(h[a].children) > 0)

\* the index of the group keyed by hash, 0 when there is none
GroupIndex(gs, hash) ==
  IF \E g \in 1..Len(gs) : gs[g].hash = hash
  THEN CHOOSE g \in 1..Len(gs) : gs[g].hash = hash
  ELSE 0

\* this._candidateGroups.get(hash)!.push(node), the group created when new
PushCandidate(gs, hash, a) ==
  IF GroupIndex(gs, hash) = 0
  THEN Append(gs, [hash |-> hash, insts |-> <<a>>])
  ELSE [gs EXCEPT ![GroupIndex(gs, hash)].insts = Append(@, a)]

\* every name taken for a state name
isCollectStateAny(name) == TRUE

isCollectState(name) == someIncluded(nameLow(name), CollectStateKeywords)

RECURSIVE collectCandidatesRecursive(_, _)
RECURSIVE collectChildren(_, _, _)
collectCandidatesRecursive(st, a) ==
  LET node == st.heap[a] IN
  IF node.visible = FALSE /\ ~isCollectState(node.name) THEN st
  ELSE IF Len(node.children) = 0 THEN st
  ELSE
    LET st1 == collectChildren(st, node.children, 1)
        h1 == st1.heap
        hash == calculateStructuralHash(h1, a)
    IN IF ShapeGroupSkipped(h1, a) THEN st1
       ELSE IF MaskSkipped(h1, a) THEN st1
       ELSE IF someIncluded(nameLow(node.name), KwDeny) THEN st1
       ELSE IF isSignificant(h1, a)
       THEN [heap |-> [h1 EXCEPT ![a].asComponent = TRUE,
                                 ![a].structuralHash = hash],
             groups |-> PushCandidate(st1.groups, hash, a)]
       ELSE st1

collectChildren(st, kids, j) ==
  IF j > Len(kids) THEN st
  ELSE collectChildren(collectCandidatesRecursive(st, kids[j]), kids, j + 1)

(***************************************************************************)
(* extractInstanceActiveState: the page tagged by the variant analysis,    *)
(* else the page of the first visible node (pre-order, the instance        *)
(* included) whose name holds a state keyword.                             *)
(***************************************************************************)
\* the first state, in the order of the keyword table, that the name matches
MatchedState(nl) ==
  IF someIncluded(nl, KwSelected) THEN "selected"
  ELSE IF someIncluded(nl, KwOver) THEN "over"
  ELSE IF someIncluded(nl, KwDown) THEN "down"
  ELSE IF someIncluded(nl, KwDisabled) THEN "disabled"
  ELSE ""

RECURSIVE findVisibleState(_, _)
RECURSIVE findVisibleStateIn(_, _, _)
findVisibleState(h, a) ==
  IF h[a].visible /\ MatchedState(nameLow(h[a].name)) # ""
  THEN MatchedState(nameLow(h[a].name))
  ELSE findVisibleStateIn(h, h[a].children, 1)

findVisibleStateIn(h, kids, j) ==
  IF j > Len(kids) THEN ""
  ELSE IF findVisibleState(h, kids[j]) # "" THEN findVisibleState(h, kids[j])
  ELSE findVisibleStateIn(h, kids, j + 1)

buttonPageMap(state) ==
  CASE state = "selected" -> 3
    [] state = "over" -> 2
    [] state = "down" -> 1
    [] state = "disabled" -> 4
    [] OTHER -> 0

\* the page by name keyword, whatever the variant tag
extractInstanceActiveStateByName(h, a) ==
  buttonPageMap(findVisibleState(h, a))

extractInstanceActiveState(h, a) ==
  IF h[a].variantPageId # -1 THEN h[a].variantPageId
  ELSE buttonPageMap(findVisibleState(h, a))

(***************************************************************************)
(* analyzeMultiLooks.  multiLooks is the set of its entries [page,         *)
(* sourceId]; an assignment to a page replaces the entry of that page.     *)
(***************************************************************************)
SetLook(looks, page, sid) ==
  {e \in looks : e.page # page} \cup {[page |-> page, sourceId |-> sid]}

\* the node's own id, whatever its sourceId
SourceOfOwnId(node) == node.id

\* group[0].sourceId || group[0].id
SourceOf(node) == IF node.sourceId # "" THEN node.sourceId ELSE node.id

hasGearIcon(gears) == \E j \in 1..Len(gears) : gears[j].type = "gearIcon"

\* the gear pushed without looking for one
EnsureGearIconAgain(node) ==
  [node EXCEPT !.gears =
     Append(@, [type |-> "gearIcon",
                controller |->
                  IF node.extention = "Button" \/ node.type = Button
                  THEN "button" ELSE "state"])]

\* canonical.gears.push({type: 'gearIcon', ...}) unless there is one
EnsureGearIcon(node) ==
  IF hasGearIcon(node.gears) THEN node
  ELSE [node EXCEPT !.gears =
          Append(@, [type |-> "gearIcon",
                     controller |->
                       IF node.extention = "Button" \/ node.type = Button
                       THEN "button" ELSE "state"])]

\* fpGroups: the instances by fingerprint, in order of first occurrence
RECURSIVE GroupByFingerprint(_, _, _, _)
GroupByFingerprint(h, insts, j, acc) ==
  IF j > Len(insts) THEN acc
  ELSE
    LET fp == computeVisualFingerprint(h, insts[j])
        at == IF \E g \in 1..Len(acc) : acc[g].fp = fp
              THEN CHOOSE g \in 1..Len(acc) : acc[g].fp = fp ELSE 0
    IN GroupByFingerprint(h, insts, j + 1,
         IF at = 0 THEN Append(acc, [fp |-> fp, members |-> <<insts[j]>>])
         ELSE [acc EXCEPT ![at].members = Append(@, insts[j])])

\* every cluster tagged like the canonical one
TagMembersZero(h, members, page) ==
  [a \in 1..Len(h) |->
     IF \E j \in 1..Len(members) : members[j] = a
     THEN [h[a] EXCEPT !.variantPageId = 0] ELSE h[a]]

\* group.forEach(inst => { inst._variantPageId = page; })
TagMembers(h, members, page) ==
  [a \in 1..Len(h) |->
     IF \E j \in 1..Len(members) : members[j] = a
     THEN [h[a] EXCEPT !.variantPageId = page] ELSE h[a]]

\* while (usedPageIds.has(pageId)) pageId = nextPageId++;
RECURSIVE FreePage(_, _, _)
FreePage(pageId, nextPageId, used) ==
  IF pageId \in used
  THEN FreePage(nextPageId, nextPageId + 1, used)
  ELSE [pageId |-> pageId, nextPageId |-> nextPageId]

\* group.forEach(inst => { inst._variantPageId = 0; })
CanonicalClusterPage == 0

\* phase B: one cluster per step, st = [heap, nextPageId, used]
RECURSIVE AssignPages(_, _, _, _, _)
AssignPages(st, canonical, canonicalFP, fpGroups, g) ==
  IF g > Len(fpGroups) THEN st
  ELSE IF fpGroups[g].fp = canonicalFP
  THEN AssignPages([st EXCEPT !.heap =
                      TagMembers(@, fpGroups[g].members, CanonicalClusterPage)],
                   canonical, canonicalFP, fpGroups, g + 1)
  ELSE
    LET first == fpGroups[g].members[1]
        nameBasedPage == extractInstanceActiveState(st.heap, first)
        start == IF nameBasedPage > 0 /\ nameBasedPage \notin st.used
                 THEN nameBasedPage ELSE st.nextPageId
        free == FreePage(start, st.nextPageId + 1, st.used)
        h1 == [st.heap EXCEPT ![canonical].multiLooks =
                 SetLook(@, free.pageId, SourceOf(st.heap[first]))]
    IN AssignPages([heap |-> TagMembers(h1, fpGroups[g].members, free.pageId),
                    nextPageId |-> free.nextPageId,
                    used |-> st.used \cup {free.pageId}],
                   canonical, canonicalFP, fpGroups, g + 1)

\* phase C: all instances look alike, pages by name keyword only
RECURSIVE AssignByName(_, _, _, _)
AssignByName(h, canonical, insts, j) ==
  IF j > Len(insts) THEN h
  ELSE
    LET pageId == extractInstanceActiveState(h, insts[j]) IN
    AssignByName(
      IF pageId = 0 THEN h
      ELSE [h EXCEPT ![canonical] =
              EnsureGearIcon([@ EXCEPT !.multiLooks =
                                SetLook(@, pageId, SourceOf(h[insts[j]]))])],
      canonical, insts, j + 1)

analyzeMultiLooks(h, canonical, insts) ==
  IF Len(insts) <= 1 THEN h
  ELSE
    LET fpGroups == GroupByFingerprint(h, insts, 1, <<>>)
        canonicalFP == computeVisualFingerprint(h, insts[1])
    IN IF Len(fpGroups) > 1
       THEN LET st == AssignPages([heap |-> h, nextPageId |-> 1, used |-> {0}],
                                  canonical, canonicalFP, fpGroups, 1)
            IN [st.heap EXCEPT ![canonical] = EnsureGearIcon(@)]
       ELSE AssignByName(h, canonical, insts, 1)

(***************************************************************************)
(* extract, phase 2 (one group per step): the resource is registered under *)
(* the group's hash, then the group's looks are analysed.                  *)
(***************************************************************************)
\* canonical.name.replace(/\s+/g, '')
safeNameOf(name) ==
  Join(SelectSeq(Chars(name), LAMBDA c : c # " "), "")

UsedIndex(used, name) ==
  IF \E j \in 1..Len(used) : used[j].name = name
  THEN CHOOSE j \in 1..Len(used) : used[j].name = name
  ELSE 0

\* the resource name after the collision handling
DedupName(used, name) ==
  IF UsedIndex(used, name) = 0 THEN name
  ELSE name \o "_" \o ToString(used[UsedIndex(used, name)].count)

NoteName(used, name) ==
  IF UsedIndex(used, name) = 0 THEN Append(used, [name |-> name, count |-> 1])
  ELSE [used EXCEPT ![UsedIndex(used, name)].count = @ + 1]

\* the id of a resource, with the counter never advanced
ResIdStuck(n) == "comp_0"

\* `comp_` + (this._nextCompId++)
ResId(n) == "comp_" \o ToString(n)

\* the canonical instance taken from the end of the group
CanonicalLast(insts) == insts[Len(insts)]

\* const canonical = instances[0];
Canonical(insts) == insts[1]

\* every lookup answered with the first resource
CacheIndexFirst(c, hash) == IF c = <<>> THEN 0 ELSE 1

\* this._componentCache.get(hash)
CacheIndex(c, hash) ==
  IF \E j \in 1..Len(c) : c[j].hash = hash
  THEN CHOOSE j \in 1..Len(c) : c[j].hash = hash
  ELSE 0

RegisterGroup ==
  /\ pc = "register"
  /\ gi <= Len(groups)
  /\ LET insts == groups[gi].insts
         canonical == Canonical(insts)
         safeName == safeNameOf(heap[canonical].name)
         preRes == [id |-> ResId(nextCompId),
                    name |-> DedupName(usedNames, safeName),
                    type |-> "component", data |-> <<>>]
     IN /\ nextCompId' = nextCompId + 1
        /\ usedNames' = NoteName(usedNames, safeName)
        /\ cache' = Append(cache, [hash |-> groups[gi].hash, res |-> preRes])
        /\ heap' = analyzeMultiLooks(heap, canonical, insts)
  /\ IF gi = Len(groups)
     THEN pc' = "transformInst" /\ gi' = 1
     ELSE pc' = pc /\ gi' = gi + 1
  /\ UNCHANGED <<roots, groups, newResources, ii, hashOut, fpOut>>
  /\ UNCHANGED download

(***************************************************************************)
(* extractOverrides: the last matching text and the last matching linked   *)
(* image of the subtree (pre-order, the node included).                    *)
(***************************************************************************)
RECURSIVE findChanges(_, _, _)
RECURSIVE findChangesIn(_, _, _, _)
findChanges(h, a, ov) ==
  LET curr == h[a]
      nl == nameLow(curr.name)
      o1 == IF curr.type = Text /\ curr.text # "" /\ someIncluded(nl, KwTitle)
            THEN [ov EXCEPT !.title = curr.text] ELSE ov
      o2 == IF curr.type \in {Image, Loader} /\ curr.src # ""
               /\ someIncluded(nl, KwIcon)
            THEN [o1 EXCEPT !.icon = curr.src] ELSE o1
  IN findChangesIn(h, curr.children, 1, o2)

findChangesIn(h, kids, j, ov) ==
  IF j > Len(kids) THEN ov
  ELSE findChangesIn(h, kids, j + 1, findChanges(h, kids[j], ov))

\* no override found at all
extractOverridesNone(h, a) == NoOverrides

extractOverrides(h, a) == findChanges(h, a, NoOverrides)

(***************************************************************************)
(* transformTreeRecursive: every child flagged asComponent whose hash has  *)
(* a registered resource is replaced, in the child list, by a new          *)
(* reference node; other children are descended into.                      *)
(***************************************************************************)
\* the hash looked up: recomputed on the subtree as it is now
LookupHashRecomputed(h, c) == calculateStructuralHash(h, c)

\* child._structuralHash || this.calculateStructuralHash(child)
LookupHash(h, c) ==
  IF h[c].structuralHash # <<>> THEN h[c].structuralHash
  ELSE calculateStructuralHash(h, c)

refNodeOf(h, c, compRes) ==
  LET child == h[c]
      activePage == extractInstanceActiveState(h, c)
      ov == extractOverrides(h, c)
  IN [BlankNode EXCEPT
        !.id = child.id, !.sourceId = child.sourceId, !.name = child.name,
        !.type = child.type, !.x = child.x, !.y = child.y,
        !.width = child.width, !.height = child.height,
        !.styles = child.styles, !.isMask = child.isMask,
        !.cyclic = child.cyclic, !.children = <<>>,
        !.src = compRes.id, !.fileName = compRes.name \o ".xml",
        !.asComponent = TRUE, !.visible = child.visible,
        !.overrides = IF activePage > 0 THEN [ov EXCEPT !.page = activePage]
                      ELSE ov]

\* nothing is replaced
transformTreeRecursiveSkipped(h, c, a) == h

RECURSIVE transformTreeRecursive(_, _, _)
RECURSIVE transformChildren(_, _, _, _)
transformTreeRecursive(h, c, a) == transformChildren(h, c, a, 1)

transformChildren(h, c, a, j) ==
  IF j > Len(h[a].children) THEN h
  ELSE
    LET child == h[a].children[j] IN
    IF h[child].asComponent
    THEN LET at == CacheIndex(c, LookupHash(h, child)) IN
         IF at # 0
         THEN transformChildren(
                [Append(h, refNodeOf(h, child, c[at].res))
                   EXCEPT ![a].children[j] = Len(h) + 1],
                c, a, j + 1)
         ELSE transformChildren(h, c, a, j + 1)
    ELSE transformChildren(transformTreeRecursive(h, c, child), c, a, j + 1)

(***************************************************************************)
(* detectAndApplyStates: the states whose keywords occur in the names of   *)
(* the descendants, in order of first detection; one controller is pushed  *)
(* when there is any.  (The gearDisplay part of the source is commented    *)
(* out.)                                                                   *)
(***************************************************************************)
StateTable ==
  << [state |-> "selected", keywords |-> KwSelected],
     [state |-> "over", keywords |-> KwOver],
     [state |-> "down", keywords |-> KwDown],
     [state |-> "disabled", keywords |-> KwDisabled],
     [state |-> "normal", keywords |-> KwNormal] >>

AddOnce(seq, x) ==
  IF \E j \in 1..Len(seq) : seq[j] = x THEN seq ELSE Append(seq, x)

RECURSIVE matchStates(_, _, _)
matchStates(nl, found, k) ==
  IF k > Len(StateTable) THEN found
  ELSE matchStates(nl,
         IF someIncluded(nl, StateTable[k].keywords)
         THEN AddOnce(found, StateTable[k].state) ELSE found,
         k + 1)

RECURSIVE scanStates(_, _, _)
RECURSIVE scanStatesIn(_, _, _, _)
scanStates(h, a, found) ==
  scanStatesIn(h, h[a].children, 1, matchStates(nameLow(h[a].name), found, 1))

scanStatesIn(h, kids, j, found) ==
  IF j > Len(kids) THEN found
  ELSE scanStatesIn(h, kids, j + 1, scanStates(h, kids[j], found))

foundStates(h, a) == scanStatesIn(h, h[a].children, 1, <<>>)

RECURSIVE statePages(_, _)
statePages(stateList, j) ==
  IF j > Len(stateList) THEN ""
  ELSE "," \o ToString(j) \o "," \o stateList[j] \o statePages(stateList, j + 1)

\* the controller with a page for the normal state as well
controllerForEveryState(node, found) ==
  IF node.extention = "Button" \/ node.type = Button
  THEN [name |-> "button", pages |-> "0,up,1,down,2,over,3,selectedOver"]
  ELSE [name |-> "state", pages |-> "0,Normal" \o statePages(found, 1)]

controllerFor(node, found) ==
  IF node.extention = "Button" \/ node.type = Button
  THEN [name |-> "button", pages |-> "0,up,1,down,2,over,3,selectedOver"]
  ELSE [name |-> "state",
        pages |-> "0,Normal"
                    \o statePages(SelectSeq(found, LAMBDA x : x # "normal"), 1)]

\* the controller pushed whether or not a state was found
detectAndApplyStatesUnguarded(h, a) ==
  [h EXCEPT ![a].controllers =
     Append(@, controllerFor(h[a], foundStates(h, a)))]

detectAndApplyStates(h, a) ==
  IF foundStates(h, a) = <<>> THEN h
  ELSE [h EXCEPT ![a].controllers =
          Append(@, controllerFor(h[a], foundStates(h, a)))]

(***************************************************************************)
(* extract, phase 3: the instances of every group (one per step), then the *)
(* roots (one per step).                                                   *)
(***************************************************************************)
TransformInst ==
  /\ pc = "transformInst"
  /\ gi <= Len(groups)
  /\ LET inst == groups[gi].insts[ii] IN
     heap' = detectAndApplyStates(transformTreeRecursive(heap, cache, inst), inst)
  /\ IF ii < Len(groups[gi].insts)
     THEN pc' = pc /\ gi' = gi /\ ii' = ii + 1
     ELSE IF gi < Len(groups)
     THEN pc' = pc /\ gi' = gi + 1 /\ ii' = 1
     ELSE pc' = "transformRoot" /\ gi' = 1 /\ ii' = 1
  /\ UNCHANGED <<roots, groups, cache, newResources, nextCompId, usedNames,
                 hashOut, fpOut>>
  /\ UNCHANGED download

TransformRoot ==
  /\ pc = "transformRoot"
  /\ gi <= Len(roots)
  /\ heap' = detectAndApplyStates(
               transformTreeRecursive(heap, cache, roots[gi]), roots[gi])
  /\ IF gi = Len(roots)
     THEN pc' = (IF groups = <<>> THEN "return" ELSE "finalize") /\ gi' = 1
     ELSE pc' = pc /\ gi' = gi + 1
  /\ UNCHANGED <<roots, groups, cache, newResources, nextCompId, usedNames,
                 ii, hashOut, fpOut>>
  /\ UNCHANGED download

(***************************************************************************)
(* extract, phase 4 (one group per step).  stripParent copies the          *)
(* canonical subtree into a value of its own (children: the copies);       *)
(* JSON.stringify keeps that value, and throws on a cyclic customProps.    *)
(***************************************************************************)
RECURSIVE stripParent(_, _)
stripParent(h, a) ==
  [h[a] EXCEPT !.children =
     [j \in 1..Len(h[a].children) |-> stripParent(h, h[a].children[j])]]

extensionMap(type) ==
  CASE type = Button -> "Button"
    [] type = ProgressBar -> "ProgressBar"
    [] type = Slider -> "Slider"
    [] type = ComboBox -> "ComboBox"
    [] type = Label -> "Label"
    [] type = List -> "List"
    [] OTHER -> ""

\* applyStandardNaming's scan of one node of the copy, rootType = node.type
RECURSIVE scanNaming(_, _)
scanNaming(curr, rootType) ==
  LET nl == nameLow(curr.name)
      n1 == IF curr.type = Text /\ someIncluded(nl, KwTitle)
            THEN [curr EXCEPT !.name = "title"] ELSE curr
      n2 == IF /\ n1.type \in {Image, Graph, Component}
               /\ someIncluded(nl, KwIcon)
               /\ (Len(n1.children) = 0 \/ n1.src # "" \/ n1.type = Image)
            THEN [n1 EXCEPT !.name = "icon", !.type = Loader] ELSE n1
      n3 == IF rootType \in {ProgressBar, Slider} /\ someIncluded(nl, KwBar)
            THEN [n2 EXCEPT !.name = "bar"] ELSE n2
      n4 == IF rootType \in {ProgressBar, Slider} /\ someIncluded(nl, KwGrip)
            THEN [n3 EXCEPT !.name = "grip"] ELSE n3
  IN [n4 EXCEPT !.children =
        [j \in 1..Len(@) |-> scanNaming(@[j], rootType)]]

applyStandardNaming(node) ==
  [node EXCEPT !.children = [j \in 1..Len(@) |-> scanNaming(@[j], node.type)]]

\* multiLooks and the gearIcon gears moved from the root to its 'icon' child
propagateLooks(node) ==
  IF node.multiLooks # {}
       /\ \E j \in 1..Len(node.children) : node.children[j].name = "icon"
  THEN LET k == CHOOSE j \in 1..Len(node.children) :
                  /\ node.children[j].name = "icon"
                  /\ \A m \in 1..(j - 1) : node.children[m].name # "icon"
       IN [node EXCEPT
             !.children[k].multiLooks = node.multiLooks,
             !.children[k].gears =
                @ \o SelectSeq(node.gears, LAMBDA g : g.type = "gearIcon"),
             !.multiLooks = {},
             !.gears = SelectSeq(@, LAMBDA g : g.type # "gearIcon")]
  ELSE node

cleanNodeOf(h, canonical) ==
  LET copy == stripParent(h, canonical)
      named == IF extensionMap(h[canonical].type) # ""
               THEN applyStandardNaming(
                      [copy EXCEPT !.extention = extensionMap(h[canonical].type)])
               ELSE copy
  IN propagateLooks(named)

\* JSON.stringify throws on this value
RECURSIVE Unserializable(_)
Unserializable(node) ==
  node.cyclic \/ \E j \in 1..Len(node.children) : Unserializable(node.children[j])

FinalizeGroup ==
  /\ pc = "finalize"
  /\ gi <= Len(groups)
  /\ LET cleanNode == cleanNodeOf(heap, Canonical(groups[gi].insts))
         at == CacheIndex(cache, groups[gi].hash)
     IN /\ ~Unserializable(cleanNode)
        /\ cache' = [cache EXCEPT ![at].res.data = cleanNode]
        /\ newResources' = Append(newResources, cache'[at].res)
  /\ IF gi = Len(groups)
     THEN pc' = "return" /\ gi' = 1
     ELSE pc' = pc /\ gi' = gi + 1
  /\ UNCHANGED <<heap, roots, groups, nextCompId, usedNames, ii, hashOut, fpOut>>
  /\ UNCHANGED download

\* JSON.stringify(cleanNode) throws: nothing catches it, extract is left
FinalizeThrows ==
  /\ pc = "finalize"
  /\ gi <= Len(groups)
  /\ Unserializable(cleanNodeOf(heap, Canonical(groups[gi].insts)))
  /\ pc' = "thrown"
  /\ UNCHANGED <<heap, roots, groups, cache, newResources, nextCompId,
                 usedNames, gi, ii, hashOut, fpOut>>
  /\ UNCHANGED download

\* return this._newResources;
Return ==
  /\ pc = "return"
  /\ pc' = "done"
  /\ UNCHANGED <<heap, roots, groups, cache, newResources, nextCompId,
                 usedNames, gi, ii, hashOut, fpOut>>
  /\ UNCHANGED download

(***************************************************************************)
(* Building an input forest: a tree description [node, kids] is laid out   *)
(* in the heap in pre-order; every node gets its own id.                   *)
(***************************************************************************)
T(node, kids) == [node |-> node, kids |-> kids]

RECURSIVE AllocTree(_, _)
RECURSIVE AllocKids(_, _, _, _)
AllocTree(h, t) ==
  LET a == Len(h) + 1 IN
  AllocKids(Append(h, [t.node EXCEPT !.id = "n" \o ToString(a),
                                     !.children = <<>>]),
            a, t.kids, 1)

AllocKids(h, a, kids, j) ==
  IF j > Len(kids) THEN h
  ELSE LET c == Len(h) + 1
           h1 == AllocTree(h, kids[j])
       IN AllocKids([h1 EXCEPT ![a].children = Append(@, c)], a, kids, j + 1)

\* the sequences over S of length 1 .. n
SeqsUpTo(S, n) == UNION {[1..k -> S] : k \in 1..n}

(***************************************************************************)
(* extract, phase 1 (one root per step).                                   *)
(***************************************************************************)
CollectRoot ==
  /\ pc = "collect"
  /\ gi <= Len(roots)
  /\ LET st == collectCandidatesRecursive([heap |-> heap, groups |-> groups],
                                          roots[gi])
     IN /\ heap' = st.heap
        /\ groups' = st.groups
  /\ IF gi = Len(roots)
     THEN pc' = (IF groups' = <<>> THEN "transformRoot" ELSE "register")
          /\ gi' = 1
     ELSE pc' = pc /\ gi' = gi + 1
  /\ UNCHANGED <<roots, cache, newResources, nextCompId, usedNames, ii,
                 hashOut, fpOut>>
  /\ UNCHANGED download

(***************************************************************************)
(* Inputs of the candidate collection: one node under test, of extension   *)
(* or container type, with 1..MaxKids children drawn from shapes, masks,   *)
(* texts and small containers, alone or below a visible or hidden parent.  *)
(***************************************************************************)
KidRect == T(Mk(Image, "Rect", 10, 10, <<>>), <<>>)
KidMask == T([Mk(Image, "Rect", 10, 10, <<>>) EXCEPT !.isMask = TRUE], <<>>)
KidText == T([Mk(Text, "Title", 50, 20, <<>>) EXCEPT !.text = "OK"], <<>>)
KidShapeGroup == T(Mk(Component, "Panel", 20, 20, <<>>), <<KidRect>>)
KidMaskGroup == T(Mk(Component, "Panel", 20, 20, <<>>), <<KidMask>>)
KidShapeButton == T(Mk(Button, "Btn Main", 30, 20, <<>>), <<KidRect>>)
KidTextButton == T(Mk(Button, "Btn Main", 30, 20, <<>>), <<KidText>>)

CollectKids ==
  {KidRect, KidMask, KidText, KidShapeGroup, KidMaskGroup, KidShapeButton,
   KidTextButton}

CollectSubjects ==
  {T([Styled(Mk(type, name, 100, 40, <<>>), "background", bg)
        EXCEPT !.visible = vis], kids) :
     type \in {Button, Component}, name \in {"Card", "BtnText", "hover"},
     bg \in {"", "#fff"}, vis \in BOOLEAN,
     kids \in SeqsUpTo(CollectKids, MaxKids)}

CollectForests ==
  CollectSubjects
    \cup {T([Mk(Component, "Root", 200, 200, <<>>) EXCEPT !.visible = vis], <<t>>) :
            vis \in BOOLEAN, t \in CollectSubjects}

InitCollect ==
  /\ \E t \in CollectForests : heap = AllocTree(<<>>, t)
  /\ roots = <<1>>
  /\ pc = "collect"
  /\ InitIdle

NextCollect == CollectRoot

SpecCollect == InitCollect /\ [][NextCollect]_vars

(***************************************************************************)
(* Inputs of the variant analysis: one root holding 1..MaxInst buttons of  *)
(* the same structure, each with its own name and background colour.       *)
(***************************************************************************)
LookButton(name, colour, label) ==
  T(Mk(Button, name, 100, 40, <<>>),
    << T(Styled(Mk(Image, "bg", 100, 40, <<>>), "fillColor", colour), <<>>),
       T([Mk(Text, "Title", 50, 20, <<>>) EXCEPT !.text = label], <<>>) >>)

LookButtons ==
  {LookButton(name, colour, "OK") :
     name \in {"Button/Default", "Button/Pressed", "Button/Hover"},
     colour \in {"#00f", "#f00", "#0f0"}}

InitLooks ==
  /\ \E kids \in SeqsUpTo(LookButtons, MaxInst) :
       heap = AllocTree(<<>>, T(Mk(Component, "Root", 400, 400, <<>>), kids))
  /\ roots = <<1>>
  /\ pc = "collect"
  /\ InitIdle

NextLooks == CollectRoot \/ RegisterGroup

SpecLooks == InitLooks /\ [][NextLooks]_vars

(***************************************************************************)
(* Inputs of extract: one or two roots holding, between them, 1..MaxSlots  *)
(* subtrees drawn from: a blue and a red button of the same structure, a   *)
(* card that nests the blue button, a one-child panel whose text has a     *)
(* state name, and a button whose customProps cannot be serialised.        *)
(***************************************************************************)
SlotBlue == LookButton("Button/Default", "#00f", "OK")

SlotRed == LookButton("Button/Pressed", "#f00", "Cancel")

SlotCard ==
  T(Styled(Mk(Component, "Card", 200, 100, <<>>), "background", "#fff"),
    << SlotBlue,
       T([Mk(Text, "Label", 80, 20, <<>>) EXCEPT !.text = "Hello"], <<>>) >>)

SlotPanel ==
  T(Mk(Component, "Panel", 60, 30, <<>>),
    << T([Mk(Text, "hover", 50, 20, <<>>) EXCEPT !.text = "tip"], <<>>) >>)

SlotCyclic ==
  T(Mk(Button, "Btn Main", 100, 40, <<>>),
    << T([Mk(Text, "Title", 50, 20, <<>>) EXCEPT !.text = "Go"], <<>>),
       T([Mk(Image, "Icon", 10, 10, <<>>) EXCEPT !.cyclic = TRUE,
                                                 !.src = "ui://img1"], <<>>) >>)

Slots == {SlotBlue, SlotRed, SlotCard, SlotPanel, SlotCyclic}

RootOver(kids) == T(Mk(Component, "Root", 400, 400, <<>>), kids)

\* the forests: all slots below one root, or split between two roots
Forests ==
  {<<RootOver(kids)>> : kids \in SeqsUpTo(Slots, MaxSlots)}
    \cup UNION {{<<RootOver(SubSeq(kids, 1, k)),
                    RootOver(SubSeq(kids, k + 1, Len(kids)))>> :
                    k \in 1..(Len(kids) - 1)} :
                  kids \in SeqsUpTo(Slots, MaxSlots)}

RECURSIVE AllocForest(_, _, _)
AllocForest(st, f, j) ==
  IF j > Len(f) THEN st
  ELSE AllocForest([heap |-> AllocTree(st.heap, f[j]),
                    roots |-> Append(st.roots, Len(st.heap) + 1)], f, j + 1)

Init ==
  /\ \E f \in Forests :
       LET st == AllocForest([heap |-> <<>>, roots |-> <<>>], f, 1)
       IN heap = st.heap /\ roots = st.roots
  /\ pc = "collect"
  /\ InitIdle

Next ==
  \/ CollectRoot
  \/ RegisterGroup
  \/ TransformInst
  \/ TransformRoot
  \/ FinalizeGroup
  \/ FinalizeThrows
  \/ Return

Spec == Init /\ [][Next]_vars

(***************************************************************************)
(* Inputs around the significance test: a root with 1..MaxKids children    *)
(* that are leaves, one-child panels, shape groups or small buttons, alone *)
(* or followed by a second root with one such child.                       *)
(***************************************************************************)
PlainKids ==
  {KidRect, KidText, KidShapeGroup, KidShapeButton, KidTextButton,
   T([Mk(Text, "hover", 50, 20, <<>>) EXCEPT !.text = "tip"], <<>>),
   T(Mk(Component, "Panel", 60, 30, <<>>),
     << T([Mk(Text, "Caption", 50, 20, <<>>) EXCEPT !.text = "note"], <<>>) >>),
   T(Mk(Component, "Panel", 60, 30, <<>>),
     << T([Mk(Text, "Selected", 50, 20, <<>>) EXCEPT !.text = "on"], <<>>) >>),
   T(Mk(Component, "Panel", 60, 30, <<>>),
     << T([Mk(Text, "Group 1", 50, 20, <<>>) EXCEPT !.text = "on"], <<>>) >>),
   T(Mk(Button, "Btn Main", 30, 20, <<>>),
     << T([Mk(Text, "hover", 50, 20, <<>>) EXCEPT !.text = "tip"], <<>>) >>)}

PlainForests ==
  {<<RootOver(kids)>> : kids \in SeqsUpTo(PlainKids, MaxKids)}
    \cup {<<RootOver(kids), RootOver(<<k>>)>> :
            kids \in SeqsUpTo(PlainKids, MaxKids), k \in PlainKids}

InitPlain ==
  /\ \E f \in PlainForests :
       LET st == AllocForest([heap |-> <<>>, roots |-> <<>>], f, 1)
       IN heap = st.heap /\ roots = st.roots
  /\ pc = "collect"
  /\ InitIdle

NextPlain ==
  \/ CollectRoot
  \/ RegisterGroup
  \/ TransformInst
  \/ TransformRoot
  \/ FinalizeGroup
  \/ Return

SpecPlain == InitPlain /\ [][NextPlain]_vars

(***************************************************************************)
(* Inputs of the reference construction: one root holding 1..MaxInst       *)
(* buttons and cards; those of one kind have the same structure and differ *)
(* in name, colour, title text and in whether the background image has a   *)
(* resolved resource.                                                      *)
(***************************************************************************)
RefButton(name, colour, label, src) ==
  T(Mk(Button, name, 100, 40, <<>>),
    << T([Styled(Mk(Image, "bg", 100, 40, <<>>), "fillColor", colour)
            EXCEPT !.src = src], <<>>),
       T([Mk(Text, "Title", 50, 20, <<>>) EXCEPT !.text = label], <<>>) >>)

RefButtons ==
  {RefButton("Button/Default", "#00f", "OK", ""),
   [RefButton("Button/Pressed", "#f00", "Cancel", "")
      EXCEPT !.node.sourceId = "12:34"],
   RefButton("Button/Hover", "#00f", "Go", ""),
   RefButton("Button/Pressed", "#00f", "Yes", "ui://img1"),
   RefButton("Selected", "#0f0", "No", "")}

RefCard(name, colour, label) ==
  T(Styled(Mk(Component, name, 100, 40, <<>>), "background", "#fff"),
    << T(Styled(Mk(Image, "bg", 100, 40, <<>>), "fillColor", colour), <<>>),
       T([Mk(Text, "Title", 50, 20, <<>>) EXCEPT !.text = label], <<>>) >>)

RefCards ==
  {RefCard("Card", "#00f", "OK"), RefCard("Selected", "#f00", "No")}

InitRefs ==
  /\ \E kids \in SeqsUpTo(RefButtons \cup RefCards, MaxInst) :
       heap = AllocTree(<<>>, RootOver(kids))
  /\ roots = <<1>>
  /\ pc = "collect"
  /\ InitIdle

NextRefs ==
  \/ CollectRoot
  \/ RegisterGroup
  \/ TransformInst
  \/ TransformRoot
  \/ FinalizeGroup
  \/ Return

SpecRefs == InitRefs /\ [][NextRefs]_vars

(***************************************************************************)
(* Inputs of the significance test: below a root, one button or container  *)
(* with a background, a border or neither, with 0..MaxWide children that   *)
(* are shapes, texts or small buttons.                                     *)
(***************************************************************************)
WideKids == {KidRect, KidText, KidTextButton}

WideSubjects ==
  {T(IF key = "" THEN Mk(type, name, 100, 40, <<>>)
     ELSE Styled(Mk(type, name, 100, 40, <<>>), key, "#fff"), kids) :
     type \in {Button, Component}, name \in {"Card", "BtnText"},
     key \in {"", "background", "border"},
     kids \in {<<>>} \cup SeqsUpTo(WideKids, MaxWide)}

InitWide ==
  /\ \E t \in WideSubjects : heap = AllocTree(<<>>, RootOver(<<t>>))
  /\ roots = <<1>>
  /\ pc = "collect"
  /\ InitIdle

NextWide == CollectRoot

SpecWide == InitWide /\ [][NextWide]_vars

(***************************************************************************)
(* Inputs with nested components: one root holding 1..MaxInst cards, each  *)
(* a container with background over a button, with or without a label of   *)
(* its own before the button; the buttons differ in their title text.      *)
(***************************************************************************)
NestCard(label, title) ==
  T(Styled(Mk(Component, "Card", 200, 100, <<>>), "background", "#fff"),
    (IF label = "" THEN <<>>
     ELSE << T([Mk(Text, "Label", 80, 20, <<>>) EXCEPT !.text = label], <<>>) >>)
      \o << RefButton("Button/Default", "#00f", title, "") >>)

NestCards ==
  {NestCard(label, title) : label \in {"", "Hello"}, title \in {"OK", "Cancel"}}

InitNested ==
  /\ \E kids \in SeqsUpTo(NestCards, MaxInst) :
       heap = AllocTree(<<>>, RootOver(kids))
  /\ roots = <<1>>
  /\ pc = "collect"
  /\ InitIdle

NextNested ==
  \/ CollectRoot
  \/ RegisterGroup
  \/ TransformInst
  \/ TransformRoot
  \/ FinalizeGroup
  \/ Return

SpecNested == InitNested /\ [][NextNested]_vars

(***************************************************************************)
(* Vocabulary of the properties.                                           *)
(***************************************************************************)
RECURSIVE Preorder(_, _)
Preorder(h, a) ==
  <<a>> \o Concat([j \in 1..Len(h[a].children) |-> Preorder(h, h[a].children[j])])

\* a node without its identity: the id dropped, the children as their count
Skeleton(node) == [node EXCEPT !.id = 0, !.children = <<Len(@)>>]

ShapeStyles(node) ==
  <<node.styles.borderRadius, node.styles.border, node.styles.strokeSize,
    node.styles.shadow, node.styles.fillType>>

\* node for node, in the same child order: type, width, height, shape styles
SameShape(h, a, b) ==
  LET pa == Preorder(h, a)
      pb == Preorder(h, b)
  IN /\ Len(pa) = Len(pb)
     /\ \A j \in 1..Len(pa) :
          /\ h[pa[j]].type = h[pb[j]].type
          /\ h[pa[j]].width = h[pb[j]].width
          /\ h[pa[j]].height = h[pb[j]].height
          /\ ShapeStyles(h[pa[j]]) = ShapeStyles(h[pb[j]])
          /\ Len(h[pa[j]].children) = Len(h[pb[j]].children)

\* the positions (pre-order) at which the two subtrees differ in anything
DifferingPositions(h, a, b) ==
  LET pa == Preorder(h, a)
      pb == Preorder(h, b)
  IN {j \in 1..Len(pa) : Skeleton(h[pa[j]]) # Skeleton(h[pb[j]])}

\* identical but for the fill colour of exactly one node
DiffersOnlyInOneFill(h, a, b) ==
  LET pa == Preorder(h, a)
      pb == Preorder(h, b)
      D == DifferingPositions(h, a, b)
  IN /\ Len(pa) = Len(pb)
     /\ Cardinality(D) = 1
     /\ \A j \in D :
          Styled(Skeleton(h[pa[j]]), "fillColor", "")
            = Styled(Skeleton(h[pb[j]]), "fillColor", "")

Nodes(h) == 1..Len(h)

Kids(h, a) == {h[a].children[j] : j \in 1..Len(h[a].children)}

\* the node that holds a in its child list, 0 for a root or a detached node
ParentOf(h, a) ==
  IF \E b \in Nodes(h) : a \in Kids(h, b)
  THEN CHOOSE b \in Nodes(h) : a \in Kids(h, b)
  ELSE 0

\* neither the node nor one of its ancestors is hidden
RECURSIVE Shown(_, _)
Shown(h, a) ==
  h[a].visible /\ (ParentOf(h, a) = 0 \/ Shown(h, ParentOf(h, a)))

\* the node is an instance of some candidate group
Collected(gs, a) ==
  \E g \in 1..Len(gs) : \E j \in 1..Len(gs[g].insts) : gs[g].insts[j] = a

Denied(name) == includes(toLowerCase(Chars(name)), <<"b","t","n","t","e","x","t">>)

\* an image or graph node, or a plain container of only such nodes
RECURSIVE PureShape(_, _)
PureShape(h, a) ==
  \/ h[a].type \in {Image, Graph}
  \/ (h[a].type \in {Component, Group}
        /\ \A c \in Kids(h, a) : PureShape(h, c))

RECURSIVE HasMaskBelow(_, _)
HasMaskBelow(h, a) ==
  \E c \in Kids(h, a) : h[c].isMask \/ HasMaskBelow(h, c)

ExtensionTypes == {Button, Label, ProgressBar, Slider, ComboBox, List}

\* the nodes of the forest as it stands: everything reachable from the roots
LiveNodes(h, rs) ==
  UNION {{Preorder(h, rs[j])[k] : k \in 1..Len(Preorder(h, rs[j]))} :
           j \in 1..Len(rs)}

\* the nodes of a serialised payload, the payload root included
RECURSIVE PayloadNodes(_)
PayloadNodes(node) ==
  {[node EXCEPT !.children = <<>>]}
    \cup UNION {PayloadNodes(node.children[j]) : j \in 1..Len(node.children)}

\* a node put in place of an extracted subtree
IsReference(node) == node.asComponent /\ node.fileName # ""

\* the nodes flagged as extracted in phase 1
Candidates(h) == {a \in Nodes(h) : h[a].asComponent /\ h[a].fileName = ""}

\* Equal-hash candidates are never nested in one another, so the one found
\* first by the bottom-up, root-by-root traversal is the one laid out first.
FirstDiscovered(h, hash) ==
  CHOOSE a \in Candidates(h) :
    /\ h[a].structuralHash = hash
    /\ \A b \in Candidates(h) : h[b].structuralHash = hash => a <= b

ResourcesWithId(id) ==
  {k \in 1..Len(newResources) : newResources[k].id = id}

\* the visual fingerprints met among the instances of group g
LooksOf(g) ==
  {computeVisualFingerprint(heap, groups[g].insts[j]) :
     j \in 1..Len(groups[g].insts)}

\* analyzeMultiLooks has run on group g
Analysed(g) ==
  g \in 1..Len(groups) /\ (pc = "register" => g < gi) /\ pc # "collect"

\* the candidate test on a visible forest in which nothing is extracted yet
PassesCandidateTest(h, a) ==
  /\ Len(h[a].children) >= 1
  /\ ~(\A c \in Kids(h, a) : PureShape(h, c))
  /\ ~(h[a].type \notin ExtensionTypes /\ HasMaskBelow(h, a))
  /\ ~Denied(h[a].name)
  /\ \/ Len(h[a].children) > 2
     \/ h[a].type \in ExtensionTypes
     \/ h[a].styles.background # "" \/ h[a].styles.border # ""

NoCandidate(h) == \A a \in Nodes(h) : ~PassesCandidateTest(h, a)

StateNamed(name) ==
  \E k \in 1..Len(StateTable) : someIncluded(nameLow(name), StateTable[k].keywords)

RECURSIVE HasStateDescendant(_, _)
HasStateDescendant(h, a) ==
  \E c \in Kids(h, a) : StateNamed(h[c].name) \/ HasStateDescendant(h, c)

IsRoot(a) == \E j \in 1..Len(roots) : roots[j] = a

\* the node but for its controllers
Uncontrolled(node) == [node EXCEPT !.controllers = <<>>]

(***************************************************************************)
(* C1: once extract has returned, every reference node of the root forest  *)
(* and of every resource payload has a src equal to the id of exactly one  *)
(* resource of the returned list.                                          *)
(***************************************************************************)
C1_ReferencesResolve ==
  pc = "done" =>
    /\ \A a \in LiveNodes(heap, roots) :
         IsReference(heap[a]) => Cardinality(ResourcesWithId(heap[a].src)) = 1
    /\ \A k \in 1..Len(newResources) :
         \A n \in PayloadNodes(newResources[k].data) :
           IsReference(n) => Cardinality(ResourcesWithId(n.src)) = 1

C1_Witness ==
  /\ pc = "done"
  /\ Len(newResources) >= 3
  /\ \E a \in LiveNodes(heap, roots) : IsReference(heap[a])
  /\ \E k \in 1..Len(newResources) :
       \E n \in PayloadNodes(newResources[k].data) :
         IsReference(n) /\ n.src # newResources[k].id

(***************************************************************************)
(* C2: calculateStructuralHash gives equal strings for two subtrees with   *)
(* the same types, sizes, shape styles and child structure, whatever their *)
(* names, positions, texts, links and colours, and a second call on the    *)
(* unchanged nodes gives the first call's strings.                         *)
(***************************************************************************)
C2_HashBlindToContent ==
  /\ (Len(hashOut) >= 2 /\ SameShape(heap, roots[1], roots[2]))
       => hashOut[1] = hashOut[2]
  /\ Len(hashOut) = 4 => (hashOut[3] = hashOut[1] /\ hashOut[4] = hashOut[2])

C2_Witness ==
  /\ pc = "rehashed"
  /\ SameShape(heap, roots[1], roots[2])
  /\ hashOut[1] = hashOut[2]
  /\ LET pa == Preorder(heap, roots[1])
         pb == Preorder(heap, roots[2])
     IN /\ \E j \in 1..Len(pa) : heap[pa[j]].text # heap[pb[j]].text
        /\ \E j \in 1..Len(pa) :
             heap[pa[j]].styles.fillColor # heap[pb[j]].styles.fillColor

(***************************************************************************)
(* C3: two subtrees that differ only in the fill colour of one node, at    *)
(* any position, get equal structural hashes and different visual          *)
(* fingerprints.                                                           *)
(***************************************************************************)
C3_FillColourSplitsFingerprint ==
  (pc \in {"printed", "rehashed"}
     /\ DiffersOnlyInOneFill(heap, roots[1], roots[2]))
    => (hashOut[1] = hashOut[2] /\ fpOut[1] # fpOut[2])

(***************************************************************************)
(* C4: every visible node of an interactive extension type with at least   *)
(* one child and a name off the denylist is collected in phase 1, also     *)
(* when all its descendants are pure shapes or some are masks.             *)
(***************************************************************************)
C4_ExtensionAlwaysCollected ==
  pc # "collect" =>
    \A a \in Nodes(heap) :
      (/\ Shown(heap, a)
       /\ heap[a].type \in ExtensionTypes
       /\ Len(heap[a].children) >= 1
       /\ ~Denied(heap[a].name))
        => Collected(groups, a)

(***************************************************************************)
(* C5: of the nodes with a masked descendant, one of an extension type is  *)
(* collected and a non-extension container is not.                         *)
(***************************************************************************)
C5_MaskToleratedByExtension ==
  pc # "collect" =>
    \A a \in Nodes(heap) :
      (Shown(heap, a) /\ ~Denied(heap[a].name) /\ HasMaskBelow(heap, a))
        => (Collected(groups, a) <=> heap[a].type \in ExtensionTypes)

C7_OnlyCanonicalOnPageZero ==
  \A g \in 1..Len(groups) :
    (Analysed(g) /\ Cardinality(LooksOf(g)) >= 2)
      => \A j \in 2..Len(groups[g].insts) :
           heap[groups[g].insts[j]].variantPageId # 0

(***************************************************************************)
(* C7 amended: in a group whose instances show two or more looks, the      *)
(* instances that look like the canonical one are on variant page 0 and    *)
(* every instance that looks different is on a page of 1 or more.          *)
(***************************************************************************)
C7_PageZeroIsCanonicalLook ==
  \A g \in 1..Len(groups) :
    (Analysed(g) /\ Cardinality(LooksOf(g)) >= 2)
      => \A j \in 1..Len(groups[g].insts) :
           LET inst == groups[g].insts[j] IN
           IF computeVisualFingerprint(heap, inst)
                = computeVisualFingerprint(heap, groups[g].insts[1])
           THEN heap[inst].variantPageId = 0
           ELSE heap[inst].variantPageId >= 1

C7_Witness ==
  \E g \in 1..Len(groups) :
    /\ Analysed(g)
    /\ Cardinality(LooksOf(g)) >= 2
    /\ Len(groups[g].insts) >= 3
    /\ \E j \in 2..Len(groups[g].insts) :
         heap[groups[g].insts[j]].variantPageId = 0
    /\ \E j \in 2..Len(groups[g].insts) :
         heap[groups[g].insts[j]].variantPageId >= 1

(***************************************************************************)
(* C8 as stated: on a forest none of whose nodes passes the candidate      *)
(* test, extract creates no group, returns no resource and leaves every    *)
(* node as it was, controllers included.                                   *)
(***************************************************************************)
C8_TrivialForestUntouched ==
  [][NoCandidate(heap)
       => (groups' = <<>> /\ newResources' = <<>> /\ heap' = heap)]_vars

(***************************************************************************)
(* C8 amended: on a forest none of whose nodes passes the candidate test,  *)
(* extract creates no group, returns no resource and leaves every node as  *)
(* it was, except that each root with a state-named descendant has got one *)
(* controller appended by the time extract returns.                        *)
(***************************************************************************)
C8_TrivialForestGetsOnlyStateControllers ==
  [][NoCandidate(heap)
       => /\ groups' = <<>>
          /\ newResources' = <<>>
          /\ Len(heap') = Len(heap)
          /\ \A a \in Nodes(heap) :
               /\ Uncontrolled(heap'[a]) = Uncontrolled(heap[a])
               /\ ~IsRoot(a) => heap'[a] = heap[a]
          /\ pc' = "done" =>
               \A a \in Nodes(heap) :
                 IsRoot(a) =>
                   Len(heap'[a].controllers)
                     = (IF HasStateDescendant(heap', a) THEN 1 ELSE 0)]_vars

C8_Witness ==
  /\ pc = "done"
  /\ NoCandidate(heap)
  /\ groups = <<>>
  /\ newResources = <<>>
  /\ \E a \in Nodes(heap) : IsRoot(a) /\ Len(heap[a].controllers) = 1
  /\ \E a \in Nodes(heap) :
       /\ IsRoot(a)
       /\ heap[a].controllers = <<>>
       /\ \E c \in Kids(heap, a) : heap[c].type = Button

(***************************************************************************)
(* C9: a canonical subtree that cannot be serialised never aborts extract: *)
(* extract returns, the list holds no resource for that group and holds    *)
(* the resources of all the other groups.                                  *)
(***************************************************************************)
C9_SerializationFailureSkipsGroup ==
  /\ pc # "thrown"
  /\ pc = "done" =>
       \A g \in 1..Len(groups) :
         LET id == cache[CacheIndex(cache, groups[g].hash)].res.id IN
         Cardinality(ResourcesWithId(id))
           = (IF Unserializable(cleanNodeOf(heap, Canonical(groups[g].insts)))
              THEN 0 ELSE 1)

(***************************************************************************)
(* C10: extract returns one resource per distinct structural hash among    *)
(* the collected candidates, the ids are pairwise distinct, and for every  *)
(* hash exactly one payload is the snapshot of the first-discovered        *)
(* instance of that hash; no payload is the snapshot of a later instance.  *)
(***************************************************************************)
C10_OneResourcePerHash ==
  pc = "done" =>
    LET hashes == {heap[a].structuralHash : a \in Candidates(heap)} IN
    /\ Len(newResources) = Cardinality(hashes)
    /\ \A j, k \in 1..Len(newResources) :
         j # k => newResources[j].id # newResources[k].id
    /\ \A x \in hashes :
         LET first == FirstDiscovered(heap, x) IN
         \E k \in 1..Len(newResources) :
           /\ newResources[k].data.id = heap[first].id
           /\ Len(newResources[k].data.children) = Len(heap[first].children)
           /\ \A m \in 1..Len(newResources) :
                newResources[m].data.id = heap[first].id => m = k
    /\ \A k \in 1..Len(newResources) :
         \E x \in hashes :
           newResources[k].data.id = heap[FirstDiscovered(heap, x)].id

C10_Witness ==
  /\ pc = "done"
  /\ Len(newResources) >= 2
  /\ \E g \in 1..Len(groups) :
       /\ Len(groups[g].insts) >= 2
       /\ \E k \in 1..Len(newResources) :
            newResources[k].data.id = heap[groups[g].insts[1]].id
  /\ \E g \in 1..Len(groups) : Len(groups[g].insts) = 1

(***************************************************************************)
(* C11: once extract has returned, no node collected in phase 1 is still   *)
(* part of the root forest: each has given way to a reference node in the  *)
(* list that held it.                                                      *)
(***************************************************************************)
C11_NoCandidateLeftInForest ==
  pc = "done" =>
    \A a \in Candidates(heap) :
      /\ a \notin LiveNodes(heap, roots)
      /\ \E r \in LiveNodes(heap, roots) \ {a} :
           IsReference(heap[r]) /\ heap[r].id = heap[a].id

\* the reference nodes standing for the collected node a
ReferencesOf(h, a) ==
  {r \in Nodes(h) \ {a} : IsReference(h[r]) /\ h[r].id = h[a].id}

\* the non-empty texts of the label/title text nodes of the subtree of a
TitleTexts(h, a) ==
  {h[Preorder(h, a)[j]].text : j \in
     {k \in 1..Len(Preorder(h, a)) :
        LET n == h[Preorder(h, a)[k]] IN
        n.type = Text /\ n.text # "" /\ someIncluded(nameLow(n.name), KwTitle)}}

\* the resolved resources of the icon/image/background nodes of the subtree
IconSources(h, a) ==
  {h[Preorder(h, a)[j]].src : j \in
     {k \in 1..Len(Preorder(h, a)) :
        LET n == h[Preorder(h, a)[k]] IN
        n.type \in {Image, Loader} /\ n.src # ""
          /\ someIncluded(nameLow(n.name), KwIcon)}}

(***************************************************************************)
(* C12: an instance holding one non-empty label/title text is replaced by  *)
(* a reference node whose overrides.title is that instance's own text,     *)
(* whatever the texts of the other instances of its group; the reference   *)
(* node has no overrides.icon when the instance holds no icon, image or    *)
(* background node with a resolved resource.                               *)
(***************************************************************************)
C12_TitleOverridePerInstance ==
  pc = "done" =>
    \A g \in 1..Len(groups) :
      \A j \in 1..Len(groups[g].insts) :
        LET a == groups[g].insts[j] IN
        (~IsRoot(a) /\ Cardinality(TitleTexts(heap, a)) = 1)
          => /\ ReferencesOf(heap, a) # {}
             /\ \A r \in ReferencesOf(heap, a) :
                  /\ heap[r].overrides.title \in TitleTexts(heap, a)
                  /\ IconSources(heap, a) = {} => heap[r].overrides.icon = ""

C12_Witness ==
  /\ pc = "done"
  /\ \E g \in 1..Len(groups) :
       /\ Len(groups[g].insts) = 3
       /\ \A j, k \in 1..3 :
            j # k => TitleTexts(heap, groups[g].insts[j])
                       # TitleTexts(heap, groups[g].insts[k])
       /\ \A j \in 1..3 :
            \E r \in ReferencesOf(heap, groups[g].insts[j]) :
              /\ r \in LiveNodes(heap, roots)
              /\ heap[r].overrides.title \in TitleTexts(heap, groups[g].insts[j])
              /\ heap[r].overrides.icon = ""

GearIcons(node) ==
  {j \in 1..Len(node.gears) : node.gears[j].type = "gearIcon"}

\* the name of the node or of one of its descendants has a page keyword
HasPageKeyword(h, a) ==
  \E j \in 1..Len(Preorder(h, a)) :
    \E kws \in {KwSelected, KwOver, KwDown, KwDisabled} :
      someIncluded(nameLow(h[Preorder(h, a)[j]].name), kws)

(***************************************************************************)
(* C13: after the variant analysis of a group the canonical node has one   *)
(* gearIcon gear when a non-zero page was recorded in its multiLooks, and  *)
(* neither a gearIcon gear nor a multiLooks entry otherwise.  A page is    *)
(* recorded when the instances show several looks, or when there are       *)
(* several instances of one look and one of them has a page keyword; none  *)
(* is recorded when all instances share one look and none has a keyword.   *)
(* The gear's controller is 'button' on a Button and 'state' otherwise.    *)
(***************************************************************************)
C13_GearIconIffLooks ==
  \A g \in 1..Len(groups) :
    Analysed(g) =>
      LET insts == groups[g].insts
          canonical == heap[insts[1]]
          keyword == \E j \in 1..Len(insts) : HasPageKeyword(heap, insts[j])
      IN /\ canonical.multiLooks # {} =>
              /\ Cardinality(GearIcons(canonical)) = 1
              /\ \A j \in GearIcons(canonical) :
                   canonical.gears[j].controller
                     = (IF canonical.type = Button THEN "button" ELSE "state")
              /\ \A e \in canonical.multiLooks : e.page # 0
         /\ canonical.multiLooks = {} => GearIcons(canonical) = {}
         /\ canonical.multiLooks # {}
              <=> \/ Cardinality(LooksOf(g)) >= 2
                  \/ (Len(insts) >= 2 /\ keyword)

C13_Witness ==
  /\ pc = "done"
  /\ \E g \in 1..Len(groups) :
       LET canonical == heap[groups[g].insts[1]] IN
       /\ canonical.type = Component
       /\ Cardinality(LooksOf(g)) >= 2
       /\ Cardinality(GearIcons(canonical)) = 1
       /\ \A j \in GearIcons(canonical) : canonical.gears[j].controller = "state"
  /\ \E g \in 1..Len(groups) :
       LET canonical == heap[groups[g].insts[1]] IN
       /\ canonical.type = Button
       /\ canonical.multiLooks = {}
       /\ GearIcons(canonical) = {}

\* the button page of the first state keyword found in a name
KeywordPageOfName(name) ==
  IF someIncluded(nameLow(name), KwSelected) THEN 3
  ELSE IF someIncluded(nameLow(name), KwOver) THEN 2
  ELSE IF someIncluded(nameLow(name), KwDown) THEN 1
  ELSE IF someIncluded(nameLow(name), KwDisabled) THEN 4
  ELSE 0

\* the page of the first visible node, in pre-order, with a keyword name
KeywordPage(h, a) ==
  LET p == Preorder(h, a)
      hits == {j \in 1..Len(p) :
                 h[p[j]].visible /\ KeywordPageOfName(h[p[j]].name) # 0}
  IN IF hits = {} THEN 0
     ELSE KeywordPageOfName(
            h[p[CHOOSE j \in hits : \A k \in hits : j <= k]].name)

\* the page resolved for an instance: its variant tag, else its keyword page
ResolvedPage(h, a) ==
  IF h[a].variantPageId # -1 THEN h[a].variantPageId ELSE KeywordPage(h, a)

(***************************************************************************)
(* C14: the reference node that replaces an instance has overrides.page =  *)
(* p when the page p resolved for the instance is not 0 and no page        *)
(* override when it is 0; p is the instance's variant tag, and its keyword *)
(* page only when the instance has no tag.                                 *)
(***************************************************************************)
C14_PageOverrideIsResolvedPage ==
  pc = "done" =>
    \A g \in 1..Len(groups) :
      \A j \in 1..Len(groups[g].insts) :
        LET a == groups[g].insts[j] IN
        ~IsRoot(a) =>
          /\ ReferencesOf(heap, a) # {}
          /\ \A r \in ReferencesOf(heap, a) :
               heap[r].overrides.page = ResolvedPage(heap, a)

C14_Witness ==
  /\ pc = "done"
  /\ \E a \in Candidates(heap) :
       /\ heap[a].variantPageId = 0
       /\ KeywordPage(heap, a) = 2
       /\ \E r \in ReferencesOf(heap, a) : heap[r].overrides.page = 0
  /\ \E a \in Candidates(heap) :
       /\ heap[a].variantPageId = 1
       /\ \E r \in ReferencesOf(heap, a) : heap[r].overrides.page = 1
  /\ \E a \in Candidates(heap) :
       /\ heap[a].variantPageId = -1
       /\ \E r \in ReferencesOf(heap, a) : heap[r].overrides.page = 3

\* the ids of the resources registered under the hash
RegisteredUnder(hash) ==
  {cache[k].res.id : k \in {m \in 1..Len(cache) : cache[m].hash = hash}}

(***************************************************************************)
(* C15: a collected node carries, from its acceptance on, the hash that    *)
(* keys its group, and the reference node that replaces it links the       *)
(* resource registered under that hash, also when the node's subtree was   *)
(* rewritten before and hashes differently by then.                        *)
(***************************************************************************)
C15_ReferenceByCachedHash ==
  /\ \A g \in 1..Len(groups) :
       \A j \in 1..Len(groups[g].insts) :
         heap[groups[g].insts[j]].structuralHash = groups[g].hash
  /\ pc = "done" =>
       \A a \in Candidates(heap) :
         ~IsRoot(a) =>
           /\ ReferencesOf(heap, a) # {}
           /\ \A r \in ReferencesOf(heap, a) :
                RegisteredUnder(heap[a].structuralHash) = {heap[r].src}

C15_Witness ==
  /\ pc = "done"
  /\ \E a \in Candidates(heap) :
       /\ ~IsRoot(a)
       /\ calculateStructuralHash(heap, a) # heap[a].structuralHash
       /\ RegisteredUnder(calculateStructuralHash(heap, a)) = {}
       /\ \E r \in ReferencesOf(heap, a) :
            /\ r \in LiveNodes(heap, roots)
            /\ RegisteredUnder(heap[a].structuralHash) = {heap[r].src}

CandidateIds == {heap[a].id : a \in Candidates(heap)}

\* below the payload root, a collected node occurs only as a childless
\* reference node
RECURSIVE CandidatesOnlyAsReferences(_)
CandidatesOnlyAsReferences(node) ==
  \A j \in 1..Len(node.children) :
    LET child == node.children[j] IN
    /\ (child.id \in CandidateIds \/ child.asComponent)
         => (IsReference(child) /\ child.children = <<>>)
    /\ CandidatesOnlyAsReferences(child)

\* in the heap, below a, a collected node occurs only as a reference node
NestedCandidatesReplaced(h, a) ==
  \A j \in 2..Len(Preorder(h, a)) :
    h[Preorder(h, a)[j]].asComponent => IsReference(h[Preorder(h, a)[j]])

(***************************************************************************)
(* C16: as soon as one payload is serialised, every group has its          *)
(* registered resource and every candidate nested in a canonical subtree   *)
(* has been replaced; and every payload holds, below its root, a collected *)
(* node only as a reference node without children.                         *)
(***************************************************************************)
C16_PayloadsAfterRewriting ==
  newResources # <<>> =>
    /\ Len(cache) = Len(groups)
    /\ \A g \in 1..Len(groups) :
         /\ RegisteredUnder(groups[g].hash) # {}
         /\ NestedCandidatesReplaced(heap, groups[g].insts[1])
    /\ \A k \in 1..Len(newResources) :
         CandidatesOnlyAsReferences(newResources[k].data)

C16_Witness ==
  /\ pc = "done"
  /\ Len(newResources) >= 3
  /\ \E k \in 1..Len(newResources) :
       LET data == newResources[k].data IN
       /\ \A j \in 1..Len(roots) : heap[roots[j]].id # data.id
       /\ \E j \in 1..Len(data.children) :
            /\ IsReference(data.children[j])
            /\ data.children[j].children = <<>>
            /\ data.children[j].src # newResources[k].id

(***************************************************************************)
(* C17: a node without children is never collected; a visible node with a  *)
(* child that is no pure-shape group, has no mask descendant and is off    *)
(* the denylist is collected exactly when it has more than two children,   *)
(* or is of an extension type, or has a child flagged extracted, or has a  *)
(* background or border style.                                             *)
(***************************************************************************)
C17_CollectedIffSignificant ==
  pc # "collect" =>
    \A a \in Nodes(heap) :
      /\ Len(heap[a].children) = 0 => ~Collected(groups, a)
      /\ (/\ Shown(heap, a)
          /\ Len(heap[a].children) >= 1
          /\ ~(\A c \in Kids(heap, a) : PureShape(heap, c))
          /\ ~HasMaskBelow(heap, a)
          /\ ~Denied(heap[a].name))
           => (Collected(groups, a)
                 <=> \/ Len(heap[a].children) > 2
                     \/ heap[a].type \in ExtensionTypes
                     \/ \E c \in Kids(heap, a) : heap[c].asComponent
                     \/ heap[a].styles.background # ""
                     \/ heap[a].styles.backgroundColor # ""
                     \/ heap[a].styles.border # ""
                     \/ heap[a].styles.outline # "")

C17_Witness ==
  /\ pc # "collect"
  /\ \E a \in Nodes(heap) :
       /\ heap[a].type = Component
       /\ Len(heap[a].children) = 3
       /\ heap[a].styles.background = ""
       /\ heap[a].styles.border = ""
       /\ \A c \in Kids(heap, a) : ~heap[c].asComponent
       /\ \E c \in Kids(heap, a) : heap[c].type = Text
       /\ Collected(groups, a)
       /\ Collected(groups, ParentOf(heap, a))

\* the name has one of the keywords that keep an invisible node in phase 1
HiddenStateName(name) ==
  \E k \in 1..Len(CollectStateKeywords) :
    includes(toLowerCase(Chars(name)), CollectStateKeywords[k])

(***************************************************************************)
(* C18: an invisible node is collected only if its name has one of the     *)
(* interaction-state keywords; below an invisible node whose name has none *)
(* nothing is collected, the node included.                                *)
(***************************************************************************)
C18_HiddenNeedsStateName ==
  \A a \in Nodes(heap) :
    ~heap[a].visible =>
      /\ Collected(groups, a) => HiddenStateName(heap[a].name)
      /\ ~HiddenStateName(heap[a].name) =>
           \A j \in 1..Len(Preorder(heap, a)) :
             ~Collected(groups, Preorder(heap, a)[j])

C18_Witness ==
  /\ pc # "collect"
  /\ heap[roots[1]].visible
  /\ \E a \in Nodes(heap) :
       /\ ~heap[a].visible
       /\ ~HiddenStateName(heap[a].name)
       /\ ~Denied(heap[a].name)
       /\ heap[a].styles.background # ""
       /\ \E c \in Kids(heap, a) :
            /\ heap[c].visible
            /\ heap[c].type = Button
            /\ \E d \in Kids(heap, c) : heap[d].type = Text
       /\ \A j \in 1..Len(Preorder(heap, a)) :
            ~Collected(groups, Preorder(heap, a)[j])

\* the positions, in the group's instance list, of the first instance of
\* every look: one per fingerprint cluster, in the order of the clusters
ClusterFirsts(g) ==
  {j \in 1..Len(groups[g].insts) :
     \A k \in 1..(j - 1) :
       computeVisualFingerprint(heap, groups[g].insts[k])
         # computeVisualFingerprint(heap, groups[g].insts[j])}

\* the page the cluster of position j was given
ClusterPage(g, j) == heap[groups[g].insts[j]].variantPageId

\* the pages held by the clusters before the one of position j
HeldBefore(g, j) == {ClusterPage(g, k) : k \in {m \in ClusterFirsts(g) : m < j}}

LowestFree(held) == CHOOSE n \in 1..(Cardinality(held) + 1) :
                      n \notin held /\ \A m \in 1..(n - 1) : m \in held

(***************************************************************************)
(* C19: in a group of several looks, a non-canonical cluster whose first   *)
(* instance has a keyword page that no earlier cluster holds gets that     *)
(* page; any other non-canonical cluster gets the lowest integer from 1 up *)
(* that no earlier cluster holds; no two clusters get the same page.       *)
(***************************************************************************)
C19_KeywordPageElseLowestFree ==
  \A g \in 1..Len(groups) :
    (Analysed(g) /\ Cardinality(LooksOf(g)) >= 2) =>
      /\ \A j \in ClusterFirsts(g) \ {1} :
           LET kp == KeywordPage(heap, groups[g].insts[j]) IN
           IF kp > 0 /\ kp \notin HeldBefore(g, j)
           THEN ClusterPage(g, j) = kp
           ELSE ClusterPage(g, j) = LowestFree(HeldBefore(g, j))
      /\ \A j, k \in ClusterFirsts(g) :
           j # k => ClusterPage(g, j) # ClusterPage(g, k)

\* the position of the first instance that looks like the one of position j
FirstOfLook(g, j) ==
  CHOOSE k \in ClusterFirsts(g) :
    computeVisualFingerprint(heap, groups[g].insts[k])
      = computeVisualFingerprint(heap, groups[g].insts[j])

\* the external source identifier of a node
ExternalId(node) == IF node.sourceId # "" THEN node.sourceId ELSE node.id

(***************************************************************************)
(* C20: after the analysis of a group of k >= 2 looks, the canonical       *)
(* node's multiLooks has k - 1 entries, one per non-canonical cluster,     *)
(* under that cluster's page (never 0) and with the external source        *)
(* identifier of the cluster's first instance; the instances of the        *)
(* canonical cluster are tagged 0 and every other instance is tagged with  *)
(* the page of its cluster.                                                *)
(***************************************************************************)
C20_OneLookPerCluster ==
  \A g \in 1..Len(groups) :
    (Analysed(g) /\ Cardinality(LooksOf(g)) >= 2) =>
      LET insts == groups[g].insts
          looks == heap[insts[1]].multiLooks
      IN /\ Cardinality(looks) = Cardinality(LooksOf(g)) - 1
         /\ \A j \in ClusterFirsts(g) \ {1} :
              /\ ClusterPage(g, j) >= 1
              /\ [page |-> ClusterPage(g, j),
                  sourceId |-> ExternalId(heap[insts[j]])] \in looks
         /\ ClusterPage(g, 1) = 0
         /\ \A j \in 1..Len(insts) :
              heap[insts[j]].variantPageId = ClusterPage(g, FirstOfLook(g, j))

C20_Witness ==
  \E g \in 1..Len(groups) :
    /\ Analysed(g)
    /\ Cardinality(LooksOf(g)) = 3
    /\ Cardinality(heap[groups[g].insts[1]].multiLooks) = 2
    /\ \E e \in heap[groups[g].insts[1]].multiLooks : e.sourceId = "12:34"
    /\ \E e \in heap[groups[g].insts[1]].multiLooks :
         \E j \in 2..3 : e.sourceId = heap[groups[g].insts[j]].id

\* the collected node a reference node stands for; any other node is itself
OriginalOf(h, c) ==
  IF IsReference(h[c]) /\ \E b \in Candidates(h) : h[b].id = h[c].id
  THEN CHOOSE b \in Candidates(h) : h[b].id = h[c].id
  ELSE c

\* the subtree of a as it was on entry, in pre-order: every reference node
\* put in since gives way to the subtree it replaced
RECURSIVE OriginalPreorder(_, _)
OriginalPreorder(h, a) ==
  <<a>> \o Concat([j \in 1..Len(h[a].children) |->
                     OriginalPreorder(h, OriginalOf(h, h[a].children[j]))])

\* the last element of p that satisfies Test, 0 when there is none
LastWith(p, Test(_)) ==
  IF \E j \in 1..Len(p) : Test(p[j])
  THEN p[CHOOSE j \in 1..Len(p) :
           Test(p[j]) /\ \A k \in (j + 1)..Len(p) : ~Test(p[k])]
  ELSE 0

\* the title and icon overrides of the subtree listed in p
OverridesOver(h, p) ==
  LET IsTitle(b) == /\ h[b].type = Text
                    /\ h[b].text # ""
                    /\ someIncluded(nameLow(h[b].name), KwTitle)
      IsIcon(b) == /\ h[b].type \in {Image, Loader}
                   /\ h[b].src # ""
                   /\ someIncluded(nameLow(h[b].name), KwIcon)
      t == LastWith(p, IsTitle)
      i == LastWith(p, IsIcon)
  IN [title |-> IF t = 0 THEN "" ELSE h[t].text,
      icon |-> IF i = 0 THEN "" ELSE h[i].src]

(***************************************************************************)
(* C21: the title and icon overrides of a reference node are those of the  *)
(* instance's subtree as it was on entry, the parts extracted as nested    *)
(* components included.                                                    *)
(***************************************************************************)
C21_OverridesOfOriginalSubtree ==
  pc = "done" =>
    \A a \in Candidates(heap) :
      \A r \in ReferencesOf(heap, a) :
        LET ov == OverridesOver(heap, OriginalPreorder(heap, a)) IN
        /\ heap[r].overrides.title = ov.title
        /\ heap[r].overrides.icon = ov.icon

\* the node phase 3 rewrites in the next step
Rewriting == IF pc = "transformInst" THEN groups[gi].insts[ii] ELSE roots[gi]

\* the children flagged asComponent that transformTreeRecursive meets below
\* a: it descends into unflagged children only
RECURSIVE MetFlagged(_, _)
MetFlagged(h, a) ==
  UNION {IF h[c].asComponent THEN {c} ELSE MetFlagged(h, c) : c \in Kids(h, a)}

\* no resource is registered under the node's cached, else computed, hash
Unresolved(c) ==
  RegisteredUnder(IF heap[c].structuralHash # <<>>
                  THEN heap[c].structuralHash
                  ELSE calculateStructuralHash(heap, c)) = {}

UnresolvedLeftResolvedReplaced ==
  pc \in {"transformInst", "transformRoot"} =>
    \A c \in MetFlagged(heap, Rewriting) :
      IF IsReference(heap[c])
      THEN /\ Unresolved(c)
           /\ heap'[c] = heap[c]
           /\ c \in Kids(heap', ParentOf(heap, c))
      ELSE /\ ~Unresolved(c)
           /\ c \notin Kids(heap', ParentOf(heap, c))
           /\ \E r \in Kids(heap', ParentOf(heap, c)) :
                r > Len(heap) /\ heap'[r].id = heap[c].id

RECURSIVE Below(_, _)
Below(h, a) == Kids(h, a) \cup UNION {Below(h, c) : c \in Kids(h, a)}

\* the states one of whose keywords is in the name of a node below a
DetectedStates(h, a) ==
  {StateTable[k].state : k \in
     {k \in 1..Len(StateTable) :
        \E d \in Below(h, a) :
          someIncluded(nameLow(h[d].name), StateTable[k].keywords)}}

\* "0,Normal" followed by the pages 1, 2, ... of the states in the order given
RECURSIVE PageList(_, _)
PageList(order, j) ==
  IF j = 0 THEN "0,Normal"
  ELSE PageList(order, j - 1) \o "," \o ToString(j) \o "," \o order[j]

Orderings(S) ==
  {o \in [1..Cardinality(S) -> S] : \A s \in S : \E j \in DOMAIN o : o[j] = s}

\* the controller a node with state-named descendants is to get
IsStateController(h, a, ctl) ==
  IF h[a].type = Button \/ h[a].extention = "Button"
  THEN ctl = [name |-> "button", pages |-> "0,up,1,down,2,over,3,selectedOver"]
  ELSE /\ ctl.name = "state"
       /\ \E o \in Orderings(DetectedStates(h, a) \ {"normal"}) :
            ctl.pages = PageList(o, Len(o))

\* a rewriting step that replaces no child changes the heap by state
\* detection alone
StateDetectionAlone ==
  /\ pc \in {"transformInst", "transformRoot"}
  /\ Len(heap') = Len(heap)

StateDetectionEffect ==
  StateDetectionAlone =>
    LET a == Rewriting IN
    /\ \A b \in Nodes(heap) \ {a} : heap'[b] = heap[b]
    /\ Uncontrolled(heap'[a]) = Uncontrolled(heap[a])
    /\ IF DetectedStates(heap, a) = {}
       THEN heap'[a].controllers = heap[a].controllers
       ELSE /\ Len(heap'[a].controllers) = Len(heap[a].controllers) + 1
            /\ SubSeq(heap'[a].controllers, 1, Len(heap[a].controllers))
                 = heap[a].controllers
            /\ IsStateController(heap, a,
                 heap'[a].controllers[Len(heap'[a].controllers)])

(***************************************************************************)
(* C23: detectAndApplyStates on a node with a state-named descendant       *)
(* appends one controller to it, the fixed 'button' controller on a Button *)
(* and otherwise a 'state' controller with page 0 Normal and one page per  *)
(* distinct detected state other than normal; it changes nothing else and  *)
(* adds no gear; without such a descendant it changes nothing.             *)
(***************************************************************************)
C23_StateDetectionAppendsOneController ==
  [][StateDetectionEffect]_vars

C23_Witness ==
  /\ pc = "done"
  /\ \E a \in Nodes(heap) :
       /\ heap[a].type = Button
       /\ DetectedStates(heap, a) # {}
       /\ heap[a].controllers
            = << [name |-> "button", pages |-> "0,up,1,down,2,over,3,selectedOver"] >>
  /\ \E a \in Nodes(heap) :
       /\ heap[a].type # Button
       /\ Cardinality(DetectedStates(heap, a) \ {"normal"}) >= 2
       /\ Len(heap[a].controllers) = 1
       /\ heap[a].controllers[1].name = "state"
  /\ \E j \in 1..Len(roots) :
       /\ DetectedStates(heap, roots[j]) = {}
       /\ Kids(heap, roots[j]) # {}
       /\ heap[roots[j]].controllers = <<>>

\* the copy node stands below the forest node a, child for child, with the
\* standard names: a title for a label/title text, an icon loader for an
\* icon/image/background visual that is a leaf or has a resource
RECURSIVE StandardNamed(_, _, _)
StandardNamed(h, a, node) ==
  /\ Len(node.children) = Len(h[a].children)
  /\ \A j \in 1..Len(node.children) :
       LET c == h[a].children[j]
           n == node.children[j]
       IN /\ (h[c].type = Text /\ someIncluded(nameLow(h[c].name), KwTitle))
               => n.name = "title"
          /\ (/\ h[c].type \in {Image, Graph, Component}
              /\ someIncluded(nameLow(h[c].name), KwIcon)
              /\ (h[c].children = <<>> \/ h[c].src # ""))
               => (n.name = "icon" /\ n.type = Loader)
          /\ StandardNamed(h, c, n)

\* the payloads of the canonical components of the types in Types
PayloadsStandardNamed(Types) ==
  pc = "done" =>
    \A g \in 1..Len(groups), k \in 1..Len(newResources) :
      LET canonical == groups[g].insts[1] IN
      (heap[canonical].type \in Types
         /\ newResources[k].data.id = heap[canonical].id)
        => StandardNamed(heap, canonical, newResources[k].data)

(***************************************************************************)
(* C24: in the payload of every canonical component, of whatever type,     *)
(* every label/title text below the root is named 'title' and every        *)
(* icon/image/background image, graph or component below the root that is  *)
(* a leaf or has a resource is named 'icon' and typed Loader.              *)
(***************************************************************************)
C24_StandardNamesInEveryPayload ==
  PayloadsStandardNamed({heap[a].type : a \in Nodes(heap)})

\* the same for the canonical components of an extension type only
StandardNamesInExtensionPayloads == PayloadsStandardNamed(ExtensionTypes)

\* the two subtrees have the same shape and their descendants have, position
\* by position, the same fill colour and the same stroke colour
SameColoursBelow(h, a, b) ==
  LET pa == Preorder(h, a)
      pb == Preorder(h, b)
  IN /\ SameShape(h, a, b)
     /\ \A j \in 2..Len(pa) :
          /\ h[pa[j]].styles.fillColor = h[pb[j]].styles.fillColor
          /\ h[pa[j]].styles.strokeColor = h[pb[j]].styles.strokeColor

SameNamesBelow(h, a, b) ==
  LET pa == Preorder(h, a)
      pb == Preorder(h, b)
  IN \A j \in 2..Len(pa) : h[pa[j]].name = h[pb[j]].name

(***************************************************************************)
(* C25: two subtrees of equal structural hash whose descendants have,      *)
(* position by position, equal fill colours and equal stroke colours get   *)
(* the same visual fingerprint, whatever the names and texts of the        *)
(* descendants.                                                            *)
(***************************************************************************)
C25_FingerprintOfColoursOnly ==
  (pc \in {"printed", "rehashed"}
     /\ hashOut[1] = hashOut[2]
     /\ SameColoursBelow(heap, roots[1], roots[2]))
    => fpOut[1] = fpOut[2]

\* the same for descendants that have equal names as well
FingerprintOfNamesAndColours ==
  (pc \in {"printed", "rehashed"}
     /\ SameColoursBelow(heap, roots[1], roots[2])
     /\ SameNamesBelow(heap, roots[1], roots[2]))
    => fpOut[1] = fpOut[2]

\* no two controllers of the node have the same name
DistinctControllers(node) ==
  \A j, k \in 1..Len(node.controllers) :
    node.controllers[j].name = node.controllers[k].name => j = k

(***************************************************************************)
(* C26: once extract has returned, no node of the forest and no payload    *)
(* root carries two controllers of the same name, also when a root is      *)
(* itself a collected candidate.                                           *)
(***************************************************************************)
C26_OneControllerPerName ==
  pc = "done" =>
    /\ \A a \in LiveNodes(heap, roots) : DistinctControllers(heap[a])
    /\ \A k \in 1..Len(newResources) : DistinctControllers(newResources[k].data)

\* the same for the nodes that are no collected roots
OneControllerPerNameOffCandidateRoots ==
  pc = "done" =>
    /\ \A a \in LiveNodes(heap, roots) :
         (IsRoot(a) /\ a \in Candidates(heap)) \/ DistinctControllers(heap[a])
    /\ \A k \in 1..Len(newResources) :
         (\E j \in 1..Len(roots) : heap[roots[j]].id = newResources[k].data.id)
           \/ DistinctControllers(newResources[k].data)

(***************************************************************************)
(* Inputs around the resource names: one root over 1..MaxInst cards named  *)
(* Card or Card_1, of three widths, so that cards of different widths are  *)
(* the canonical nodes of different groups.                                *)
(***************************************************************************)
NameCard(name, width) ==
  T(Styled(Mk(Component, name, width, 40, <<>>), "background", "#fff"),
    << T(Styled(Mk(Image, "bg", 100, 40, <<>>), "fillColor", "#00f"), <<>>),
       T([Mk(Text, "Title", 50, 20, <<>>) EXCEPT !.text = "OK"], <<>>) >>)

NameCards ==
  {NameCard(name, width) : name \in {"Card", "Card_1"}, width \in {100, 120, 140}}

InitNames ==
  /\ \E kids \in SeqsUpTo(NameCards, MaxInst) :
       heap = AllocTree(<<>>, RootOver(kids))
  /\ roots = <<1>>
  /\ pc = "collect"
  /\ InitIdle

NextNames ==
  \/ CollectRoot
  \/ RegisterGroup
  \/ TransformInst
  \/ TransformRoot
  \/ FinalizeGroup
  \/ Return

SpecNames == InitNames /\ [][NextNames]_vars

(***************************************************************************)
(* C27: the resources extract returns have pairwise distinct names, and    *)
(* two reference nodes with the same fileName link the same component.     *)
(***************************************************************************)
C27_DistinctResourceNames ==
  pc = "done" =>
    /\ \A j, k \in 1..Len(newResources) :
         newResources[j].name = newResources[k].name => j = k
    /\ \A a, b \in LiveNodes(heap, roots) :
         (IsReference(heap[a]) /\ IsReference(heap[b])
            /\ heap[a].fileName = heap[b].fileName)
           => heap[a].src = heap[b].src

\* every page a reference node of an instance of group g asks for is a page
\* the canonical node of g has a look for
PagesHaveLooks(g) ==
  \A j \in 1..Len(groups[g].insts) :
    \A r \in ReferencesOf(heap, groups[g].insts[j]) :
      heap[r].overrides.page > 0 =>
        \E look \in heap[groups[g].insts[1]].multiLooks :
          look.page = heap[r].overrides.page

(***************************************************************************)
(* C28: once extract has returned, whenever a reference node carries       *)
(* overrides.page = p, the canonical node of the component it links has a  *)
(* multiLooks entry for page p, also in a group of one instance.           *)
(***************************************************************************)
C28_PageOverrideHasLook ==
  pc = "done" => \A g \in 1..Len(groups) : PagesHaveLooks(g)

\* the same for the groups with two or more looks only
PageOverrideHasLookInVariantGroups ==
  pc = "done" =>
    \A g \in 1..Len(groups) : Cardinality(LooksOf(g)) >= 2 => PagesHaveLooks(g)

(***************************************************************************)
(* The download stage: ImagePipeline.execute hands one downloadWithRetry   *)
(* closure per image to parallelLimit.  A step runs one continuation from  *)
(* where it was resumed to its next await, as the event loop does.         *)
(***************************************************************************)
MaxTasks == 3
MaxLimit == 2

\* private static readonly CONCURRENCY = 5;
CONCURRENCY == 5

\* downloadWithRetry(url, destPath, label, retries = 3)
retries == 3

\* the closures built by execute, none called yet
downloadTasks(n) ==
  [i \in 1..n |-> [label |-> "img" \o ToString(i) \o ".png", phase |-> "queued",
                   attempt |-> 0, calls |-> <<>>, starts |-> 0]]

\* new Array(tasks.length): a hole at every index
NewArray(n) == [i \in 1..n |-> [of |-> 0, value |-> "empty"]]

\* the value the promise of task i is fulfilled with: undefined, told apart
\* by the task it comes from
settledValue(i) == [of |-> i, value |-> "undefined"]

\* tasks[i](): downloadWithRetry runs up to its first await, the first
\* call of client.downloadImage
callTask(ts, i) ==
  [ts EXCEPT ![i].phase = "downloading", ![i].attempt = 1, ![i].starts = @ + 1]

\* the catch block that throws again once the attempts are used up
afterFailureRethrown(attempt) ==
  IF attempt = retries THEN "rejected" ELSE "backoff"

\* the catch block: after the last attempt the loop ends and the call
\* returns, before that it waits for the backoff delay
afterFailure(attempt) ==
  IF attempt = retries THEN "resolved" ELSE "backoff"

\* run(): from the loop test to the next await, or to the end of the loop;
\* idx counts from 0 as in the source, the sequences from 1
runLoop(st, w) ==
  IF st.idx < Len(st.tasks)
  THEN [tasks |-> callTask(st.tasks, st.idx + 1),
        idx |-> st.idx + 1,
        run |-> [st.run EXCEPT ![w] = [state |-> "await", i |-> st.idx + 1]]]
  ELSE [st EXCEPT !.run[w] = [state |-> "done", i |-> 0]]

\* one run() per task, whatever the limit
runCountAll(lim, n) == n

\* Math.min(limit, tasks.length)
runCount(lim, n) == IF lim < n THEN lim ELSE n

\* .map(() => run()): the calls of run() one after the other
RECURSIVE startRuns(_, _, _)
startRuns(st, w, k) ==
  IF w > k THEN st ELSE startRuns(runLoop(st, w), w + 1, k)

InitDownloads ==
  /\ \E n \in 0..MaxTasks : tasks = downloadTasks(n)
  /\ limit \in (1..MaxLimit) \cup {CONCURRENCY}
  /\ idx = 0
  /\ results = <<>>
  /\ run = <<>>
  /\ plpc = "call"
  /\ heap = <<>>
  /\ roots = <<>>
  /\ pc = "done"
  /\ groups = <<>>
  /\ cache = <<>>
  /\ newResources = <<>>
  /\ nextCompId = 0
  /\ usedNames = <<>>
  /\ gi = 1
  /\ ii = 1
  /\ hashOut = <<>>
  /\ fpOut = <<>>

\* parallelLimit(downloadTasks, CONCURRENCY) up to its await Promise.all
Call ==
  /\ plpc = "call"
  /\ LET k == runCount(limit, Len(tasks))
         st == startRuns([tasks |-> tasks, idx |-> 0,
                          run |-> [w \in 1..k |-> [state |-> "new", i |-> 0]]],
                         1, k)
     IN /\ tasks' = st.tasks
        /\ idx' = st.idx
        /\ run' = st.run
  /\ results' = NewArray(Len(tasks))
  /\ plpc' = "running"
  /\ UNCHANGED <<limit, extractor>>

\* client.downloadImage is fulfilled: downloadWithRetry returns
DownloadSucceeds ==
  /\ \E i \in 1..Len(tasks) :
       /\ tasks[i].phase = "downloading"
       /\ tasks' = [tasks EXCEPT ![i].calls = Append(@, "ok"),
                                 ![i].phase = "resolved"]
  /\ UNCHANGED <<limit, idx, results, run, plpc, extractor>>

\* client.downloadImage is rejected: the catch block
DownloadFails ==
  /\ \E i \in 1..Len(tasks) :
       /\ tasks[i].phase = "downloading"
       /\ tasks' = [tasks EXCEPT ![i].calls = Append(@, "fail"),
                                 ![i].phase = afterFailure(tasks[i].attempt)]
  /\ UNCHANGED <<limit, idx, results, run, plpc, extractor>>

\* await this.delay(backoff) is over: attempt++ and the next call
BackoffElapses ==
  /\ \E i \in 1..Len(tasks) :
       /\ tasks[i].phase = "backoff"
       /\ tasks' = [tasks EXCEPT ![i].attempt = @ + 1,
                                 ![i].phase = "downloading"]
  /\ UNCHANGED <<limit, idx, results, run, plpc, extractor>>

\* results[i] = await tasks[i]() is resumed: the value is stored and the
\* loop goes on, or the rejection leaves run()
Resume ==
  /\ \E w \in 1..Len(run) :
       /\ run[w].state = "await"
       /\ tasks[run[w].i].phase \in {"resolved", "rejected"}
       /\ IF tasks[run[w].i].phase = "rejected"
          THEN /\ run' = [run EXCEPT ![w].state = "thrown"]
               /\ UNCHANGED <<tasks, idx, results>>
          ELSE LET st == runLoop([tasks |-> tasks, idx |-> idx, run |-> run], w)
               IN /\ results' = [results EXCEPT ![run[w].i] = settledValue(run[w].i)]
                  /\ tasks' = st.tasks
                  /\ idx' = st.idx
                  /\ run' = st.run
  /\ UNCHANGED <<limit, plpc, extractor>>

\* Promise.all settles: rejected with the first run() that threw, fulfilled
\* when every run() has ended
Settle ==
  /\ plpc = "running"
  /\ \/ \E w \in 1..Len(run) : run[w].state = "thrown"
     \/ \A w \in 1..Len(run) : run[w].state = "done"
  /\ plpc' = IF \E w \in 1..Len(run) : run[w].state = "thrown"
             THEN "raised" ELSE "returned"
  /\ UNCHANGED <<tasks, limit, idx, results, run, extractor>>

NextDownloads ==
  \/ Call
  \/ DownloadSucceeds
  \/ DownloadFails
  \/ BackoffElapses
  \/ Resume
  \/ Settle

\* the event loop runs every continuation that is ready, every timer
\* elapses and every request settles (downloadImage has a 30 s timeout)
SpecDownloads ==
  InitDownloads /\ [][NextDownloads]_vars /\ WF_vars(NextDownloads)

\* the task has been started and its promise is not settled yet
InFlight(i) ==
  tasks[i].starts > 0 /\ tasks[i].phase \notin {"resolved", "rejected"}

TasksInFlight == {i \in 1..Len(tasks) : InFlight(i)}

Settled(i) == tasks[i].phase \in {"resolved", "rejected"}

\* the calls of client.downloadImage made for task i so far
Attempts(i) ==
  Len(tasks[i].calls) + (IF tasks[i].phase = "downloading" THEN 1 ELSE 0)

LimitKept ==
  /\ Cardinality(TasksInFlight) <= limit
  /\ \A i \in 1..Len(tasks) : tasks[i].starts <= 1
  /\ \A i \in 1..Len(results) : results[i].of \in {0, i}
  /\ \A i \in 1..Len(results) : results[i].of = i => Settled(i)
  /\ plpc = "returned" =>
       /\ Len(results) = Len(tasks)
       /\ \A i \in 1..Len(tasks) :
            /\ tasks[i].starts = 1
            /\ Settled(i)
            /\ results[i] = settledValue(i)

(***************************************************************************)
(* C29: parallelLimit never has more than limit tasks in flight, starts    *)
(* no task twice, stores the result of task i at index i and nowhere else, *)
(* and returns, in every interleaving of the completions, after every task *)
(* was started once and has completed.                                     *)
(***************************************************************************)
C29_ParallelLimit ==
  []LimitKept /\ <>(plpc = "returned")

C29_Witness ==
  /\ plpc = "running"
  /\ limit = 2
  /\ Len(tasks) = 3
  /\ TasksInFlight = {1, 3}
  /\ results[2] = settledValue(2)
  /\ results[1].of = 0

RetriesKept ==
  /\ \A i \in 1..Len(tasks) :
       /\ Attempts(i) <= 3
       /\ \A j \in 1..Len(tasks[i].calls) :
            tasks[i].calls[j] = "ok" =>
              j = Len(tasks[i].calls) /\ tasks[i].phase = "resolved"
       /\ tasks[i].phase # "rejected"
  /\ \A w \in 1..Len(run) : run[w].state # "thrown"
  /\ plpc # "raised"

\* every download was started once and has ended, in success or after
\* three failures
AllDownloadsEnded ==
  /\ plpc = "returned"
  /\ \A i \in 1..Len(tasks) :
       /\ tasks[i].starts = 1
       /\ tasks[i].phase = "resolved"
       /\ \/ tasks[i].calls[Len(tasks[i].calls)] = "ok"
          \/ tasks[i].calls = <<"fail", "fail", "fail">>

(***************************************************************************)
(* C30: downloadWithRetry calls downloadImage at most 3 times for a file,  *)
(* never again after a success, and never raises, also when all the calls  *)
(* fail; so every queued download is started and ends whatever becomes of  *)
(* the others.                                                             *)
(***************************************************************************)
C30_RetryNeverRaises ==
  []RetriesKept /\ <>AllDownloadsEnded

C30_Witness ==
  /\ plpc = "returned"
  /\ limit = 1
  /\ Len(tasks) = 3
  /\ tasks[1].calls = <<"fail", "fail", "fail">>
  /\ tasks[2].calls = <<"fail", "ok">>
  /\ tasks[3].calls = <<"ok">>
  /\ \A i \in 1..3 : tasks[i].starts = 1 /\ results[i] = settledValue(i)

=============================================================================
